---- MODULE Spec2Model ----
(***************************************************************************)
(* The in-memory entity DB of meqa (mqswag/db.go) and the schema-driven    *)
(* value generator of the test runner (mqplan, Test.GenerateSchema).       *)
(*                                                                         *)
(* Go values of type interface{} are tagged records, of kind nil, bool,     *)
(* int (int64), float (float64), string, array ([]interface{}) or map      *)
(* (map[string]interface{}, a function from its keys).                     *)
(* Stored maps are held by value: the model has no two list slots sharing  *)
(* one Go map.                                                             *)
(***************************************************************************)
EXTENDS Integers, Sequences, FiniteSets, TLC

VARIABLES
    schemas,    \* DB.schemas: name -> [Name, Schema, Objects]
    aborted,    \* a panic left the process
    op,         \* the DB operation that just ran, "" once its caller has gone on
    args,       \* its arguments
    ret,        \* what it returned
    pre,        \* DB.schemas when it started
    prev,       \* summary of the operation that ran before it
    inserted,   \* name -> objects Insert accepted since the last Delete/Update/Init on the name
    gen,        \* the last GenerateSchema call: [schema, value, err]
    mu,         \* DB.mutex and the plans calling into the DB concurrently
    test,       \* the Test (the step) being run, with its comparisons
    history     \* the TestHistory: name -> the completed Test of that name

vars == <<schemas, aborted, op, args, ret, pre, prev, inserted, gen, mu, test, history>>

---------------------------------------------------------------------------
(* Values *)

\* the empty Go map
EmptyMap == [k \in {} |-> 0]

\* A value carries its Go kind and, by kind, a number (val), the entries of a
\* map (map) or the elements of a slice (arr).  A string is the number that
\* identifies it, a bool is 0 or 1.
Value(kind, val, map, arr) == [kind |-> kind, val |-> val, map |-> map, arr |-> arr]
Nil == Value("nil", 0, EmptyMap, <<>>)
BoolV(b) == Value("bool", IF b THEN 1 ELSE 0, EmptyMap, <<>>)
IntV(n) == Value("int", n, EmptyMap, <<>>)
FloatV(n) == Value("float", n, EmptyMap, <<>>)
StrV(id) == Value("string", id, EmptyMap, <<>>)
ArrV(s) == Value("array", 0, EmptyMap, s)
MapV(f) == Value("map", 0, f, <<>>)

\* the string value of a definition name
NameString(name) ==
    CASE name = "Pet" -> StrV(10) [] name = "Count" -> StrV(11)
      [] name = "Dog" -> StrV(12) [] OTHER -> StrV(19)

\* m[k] of a Go map: the zero value nil when the key is absent
MapGet(m, k) == IF k \in DOMAIN m THEN m[k] ELSE Nil

---------------------------------------------------------------------------
(* Schemas: the fields of spec.Schema that db.go and the generator read *)

TYPE_NULL == "null"
TYPE_BOOLEAN == "boolean"
TYPE_INTEGER == "integer"
TYPE_NUMBER == "number"
TYPE_STRING == "string"
TYPE_ARRAY == "array"
TYPE_OBJECT == "object"

\* Items is <<>> (a nil pointer) or <<the item schema>>; the descriptions carry
\* no <meqa> tag
NoSchema == [Ref |-> "", Type |-> <<>>, Required |-> <<>>, Properties |-> EmptyMap,
             Items |-> <<>>, Enum |-> <<>>, AllOf |-> <<>>, Discriminator |-> "",
             \* *float64, <<>> or <<the number in hundredths>>
             Minimum |-> <<>>, Maximum |-> <<>>,
             ExclusiveMinimum |-> FALSE, ExclusiveMaximum |-> FALSE]

TypeSchema(t) == [NoSchema EXCEPT !.Type = <<t>>]
RefSchema(n) == [NoSchema EXCEPT !.Ref = n]
ObjectSchema(req, props) ==
    [NoSchema EXCEPT !.Type = <<TYPE_OBJECT>>, !.Required = req, !.Properties = props]
ArraySchema(item) == [NoSchema EXCEPT !.Type = <<TYPE_ARRAY>>, !.Items = <<item>>]
EnumSchema(e) == [NoSchema EXCEPT !.Enum = e]
AllOfSchema(ss) == [NoSchema EXCEPT !.AllOf = ss]

\* StringOrArray.Contains
TypeContains(schema, t) == \E i \in DOMAIN schema.Type : schema.Type[i] = t

PetSchema ==
    ObjectSchema(<<"a">>, [a |-> TypeSchema(TYPE_INTEGER),
                           b |-> TypeSchema(TYPE_INTEGER),
                           c |-> TypeSchema(TYPE_INTEGER)])

\* swagger.Definitions
Definitions == [Pet |-> PetSchema, Count |-> TypeSchema(TYPE_INTEGER)]

\* Swagger.GetReferredSchema: (referenceName, referredSchema, err)
GetReferredSchema(schema) ==
    IF schema.Ref = "" THEN [name |-> "", found |-> FALSE, err |-> FALSE]
    ELSE IF schema.Ref \in DOMAIN Definitions
         THEN [name |-> schema.Ref, found |-> TRUE, err |-> FALSE]
         ELSE [name |-> "", found |-> FALSE, err |-> TRUE]

\* the schema a resolved reference stands for
ReferredSchema(schema) == Definitions[schema.Ref]

---------------------------------------------------------------------------
(* Schema.Matches / Schema.MatchesMap.  The result is the set of outcomes  *)
(* the call can have: "true", "false" or "panic".  More than one outcome   *)
(* is possible only where Go ranges over a map in its unspecified order.   *)

RECURSIVE MatchesOutcomes(_, _)
RECURSIVE MatchesItems(_, _, _)

\* the loop over the array elements, from element i: stops at the first non-true
MatchesItems(itemsSchema, ar, i) ==
    IF i > Len(ar) THEN {"true"}
    ELSE LET o == MatchesOutcomes(itemsSchema, ar[i])
         IN  (o \ {"true"}) \cup
             (IF "true" \in o THEN MatchesItems(itemsSchema, ar, i + 1) ELSE {})

MatchesMap(schema, obj) ==
    IF \E i \in DOMAIN schema.Required : MapGet(obj, schema.Required[i]).kind = "nil"
    THEN {"panic"}
    ELSE LET keys == DOMAIN obj \cap DOMAIN schema.Properties
             out(k) == MatchesOutcomes(schema.Properties[k], obj[k])
             \* a "false" turns into "false" for the whole map, a panic unwinds
             bad == UNION {out(k) \ {"true"} : k \in keys}
         IN  bad \cup (IF \A k \in keys : "true" \in out(k) THEN {"true"} ELSE {})

BoolOutcome(b) == IF b THEN {"true"} ELSE {"false"}

MatchesOutcomes(schema, object) ==
    IF object.kind = "nil" THEN BoolOutcome(TypeContains(schema, TYPE_NULL))
    ELSE LET r == GetReferredSchema(schema) IN
    IF r.err THEN {"false"}
    ELSE IF r.found THEN MatchesOutcomes(ReferredSchema(schema), object)
    ELSE CASE object.kind = "bool" -> BoolOutcome(TypeContains(schema, TYPE_BOOLEAN))
           [] object.kind \in {"int", "float"} ->
                BoolOutcome(TypeContains(schema, TYPE_INTEGER)
                            \/ TypeContains(schema, TYPE_NUMBER))
           [] object.kind = "string" -> BoolOutcome(TypeContains(schema, TYPE_STRING))
           [] object.kind = "array" ->
                IF ~TypeContains(schema, TYPE_ARRAY) THEN {"false"}
                ELSE IF schema.Items = <<>> THEN {"panic"}  \* schema.Items is nil
                ELSE MatchesItems(schema.Items[1], object.arr, 1)
           [] object.kind = "map" ->
                IF ~TypeContains(schema, TYPE_OBJECT) THEN {"false"}
                ELSE MatchesMap(schema, object.map)
           [] OTHER -> {"false"}

\* Matches returned true, without a panic
Matches(schema, object) == MatchesOutcomes(schema, object) = {"true"}

---------------------------------------------------------------------------
(* mqutil helpers *)

\* mqutil.InterfaceEquals: deep structural equality of two values
InterfaceEquals(criteria, existing) == criteria = existing

RECURSIVE MapCombine(_, _)
\* mqutil.MapCombine(dst, src): merge src into dst, the keys of src win
MapCombine(dst, src) ==
    [k \in DOMAIN dst \cup DOMAIN src |->
        IF k \notin DOMAIN src THEN dst[k]
        ELSE IF k \in DOMAIN dst /\ dst[k].kind = "map" /\ src[k].kind = "map"
             THEN MapV(MapCombine(dst[k].map, src[k].map))
             ELSE src[k]]

---------------------------------------------------------------------------
(* MatchFunc values *)

MatchAllFields(criteria, existing) ==
    /\ criteria.kind = "map"
    /\ existing.kind = "map"
    /\ \A k \in DOMAIN criteria.map : MapGet(existing.map, k) = criteria.map[k]

MatchAlways(criteria, existing) == TRUE

\* calling the MatchFunc named pred
ApplyMatch(pred, criteria, existing) ==
    CASE pred = "MatchAllFields" -> MatchAllFields(criteria, existing)
      [] pred = "MatchAlways" -> MatchAlways(criteria, existing)
      [] pred = "InterfaceEquals" -> InterfaceEquals(criteria, existing)
      [] OTHER -> FALSE

---------------------------------------------------------------------------
(* SchemaDB: operations on one object list *)

\* mutant: the result of append is not stored
SchemaDBInsertLost(objects, obj) == objects

SchemaDBInsert(objects, obj) == Append(objects, obj)

RECURSIVE FindLoop(_, _, _, _, _, _)
FindLoop(objects, criteria, pred, desiredCount, i, result) ==
    IF i > Len(objects) THEN result
    ELSE IF ApplyMatch(pred, criteria, objects[i])
         THEN LET r == Append(result, objects[i])
              IN  IF Len(r) >= desiredCount THEN r
                  ELSE FindLoop(objects, criteria, pred, desiredCount, i + 1, r)
         ELSE FindLoop(objects, criteria, pred, desiredCount, i + 1, result)

RECURSIVE FindLoopOver(_, _, _, _, _, _)
FindLoopOver(objects, criteria, pred, desiredCount, i, result) ==
    IF i > Len(objects) THEN result
    ELSE IF ApplyMatch(pred, criteria, objects[i])
         THEN LET r == Append(result, objects[i])
              IN  IF Len(r) > desiredCount THEN r
                  ELSE FindLoopOver(objects, criteria, pred, desiredCount, i + 1, r)
         ELSE FindLoopOver(objects, criteria, pred, desiredCount, i + 1, result)

\* mutant: the loop stops on len(result) > desiredCount
SchemaDBFindOver(objects, criteria, pred, desiredCount) ==
    FindLoopOver(objects, criteria, pred, desiredCount, 1, <<>>)

SchemaDBFind(objects, criteria, pred, desiredCount) ==
    FindLoop(objects, criteria, pred, desiredCount, 1, <<>>)

\* Objects[count:]
DropFirst(objects, count) == SubSeq(objects, count + 1, Len(objects))

RECURSIVE DeleteLoop(_, _, _, _, _, _)
\* i is the 1-based loop index, count the Go variable
DeleteLoop(objects, criteria, pred, desiredCount, i, count) ==
    IF i > Len(objects) THEN [Objects |-> DropFirst(objects, count), count |-> count]
    ELSE IF ApplyMatch(pred, criteria, objects[i])
         THEN LET moved == [objects EXCEPT ![i] = objects[count + 1]]
              IN  IF count + 1 >= desiredCount
                  THEN [Objects |-> DropFirst(moved, count + 1), count |-> count + 1]
                  ELSE DeleteLoop(moved, criteria, pred, desiredCount, i + 1, count + 1)
         ELSE DeleteLoop(objects, criteria, pred, desiredCount, i + 1, count)

RECURSIVE DeleteLoopNoMove(_, _, _, _, _, _)
DeleteLoopNoMove(objects, criteria, pred, desiredCount, i, count) ==
    IF i > Len(objects) THEN [Objects |-> DropFirst(objects, count), count |-> count]
    ELSE IF ApplyMatch(pred, criteria, objects[i])
         THEN IF count + 1 >= desiredCount
              THEN [Objects |-> DropFirst(objects, count + 1), count |-> count + 1]
              ELSE DeleteLoopNoMove(objects, criteria, pred, desiredCount, i + 1, count + 1)
         ELSE DeleteLoopNoMove(objects, criteria, pred, desiredCount, i + 1, count)

\* mutant: db.Objects[i] = db.Objects[count] is left out
SchemaDBDeleteNoMove(objects, criteria, pred, desiredCount) ==
    DeleteLoopNoMove(objects, criteria, pred, desiredCount, 1, 0)

SchemaDBDelete(objects, criteria, pred, desiredCount) ==
    DeleteLoop(objects, criteria, pred, desiredCount, 1, 0)

RECURSIVE UpdateLoop(_, _, _, _, _, _, _, _)
UpdateLoop(objects, criteria, pred, newObj, desiredCount, patch, i, count) ==
    IF i > Len(objects) THEN [Objects |-> DropFirst(objects, count), count |-> count]
    ELSE IF ApplyMatch(pred, criteria, objects[i]) /\ objects[i].kind = "map"
         THEN LET upd == IF patch
                         THEN [objects EXCEPT ![i] = MapV(MapCombine(objects[i].map, newObj))]
                         ELSE [objects EXCEPT ![i] = MapV(newObj)]
              IN  IF count + 1 >= desiredCount
                  THEN [Objects |-> DropFirst(upd, count + 1), count |-> count + 1]
                  ELSE UpdateLoop(upd, criteria, pred, newObj, desiredCount, patch,
                                  i + 1, count + 1)
         ELSE UpdateLoop(objects, criteria, pred, newObj, desiredCount, patch, i + 1, count)

SchemaDBUpdate(objects, criteria, pred, newObj, desiredCount, patch) ==
    UpdateLoop(objects, criteria, pred, newObj, desiredCount, patch, 1, 0)

---------------------------------------------------------------------------
(* Bounds and the inputs the operations are tried on *)

\* objects stored in the whole DB, at most
MaxObjects == 3

A03 == MapV([a |-> IntV(0), c |-> IntV(3)])
A12 == MapV([a |-> IntV(1), b |-> IntV(2)])
A123 == MapV([a |-> IntV(1), b |-> IntV(2), c |-> IntV(3)])
\* lacks the required key a
NoReq == MapV([b |-> IntV(2)])
\* a has the wrong type
Wrong == MapV([a |-> StrV(0)])
I7 == IntV(7)

\* names the operations are called with; Owner is no definition of the swagger
OpNames == {"Pet", "Owner"}
\* the schema the callers pass to Insert for a name
InsertSchema == RefSchema("Pet")
InsertObjs == {A03, A12, NoReq, Wrong, I7, Nil}
\* (criteria, MatchFunc)
Queries == {<<Nil, "MatchAlways">>, <<MapV([a |-> IntV(1)]), "MatchAllFields">>,
            <<A03, "InterfaceEquals">>, <<A12, "InterfaceEquals">>,
            <<I7, "InterfaceEquals">>}
Counts == {-1, 1, 2}
\* (newObj, patch)
Updates == {<<A12, TRUE>>, <<A12, FALSE>>, <<Wrong, FALSE>>}

---------------------------------------------------------------------------
(* DB *)

\* the list stored under name, empty when the DB has no SchemaDB of that name
ObjectsOf(db, name) == IF name \in DOMAIN db THEN db[name].Objects ELSE <<>>

TotalObjects(db) ==
    LET RECURSIVE Sum(_)
        Sum(S) == IF S = {} THEN 0
                  ELSE LET n == CHOOSE n \in S : TRUE
                       IN  Len(db[n].Objects) + Sum(S \ {n})
    IN  Sum(DOMAIN db)

\* DB.Init: every SchemaDB gets the address of the one loop variable `schema`,
\* which holds the definition the range visited last
DBInit(last) ==
    [n \in DOMAIN Definitions |->
        [Name |-> n, Schema |-> Definitions[last], Objects |-> <<>>]]

\* DB.GetSchema
GetSchema(db, name) == IF name \in DOMAIN db THEN <<db[name].Schema>> ELSE <<>>

\* db.schemas after the lazy creation at the head of DB.Insert
WithSchemaDB(db, name, schema) ==
    IF name \in DOMAIN db THEN db
    ELSE [n \in DOMAIN db \cup {name} |->
            IF n = name THEN [Name |-> name, Schema |-> schema, Objects |-> <<>>]
            ELSE db[n]]

NoArgs == [name |-> "", obj |-> Nil, pred |-> "", k |-> 0, newObj |-> Nil, patch |-> FALSE]
NoRet == [err |-> "", count |-> 0, found |-> <<>>]
NoPrev == [op |-> "", name |-> "", obj |-> Nil, size |-> 0]
NoGen == [schema |-> NoSchema, value |-> Nil, err |-> "", called |-> FALSE,
          after |-> NoSchema]
AllNames == DOMAIN Definitions \cup OpNames

\* the plans that share the DB
Plans == {1, 2}
\* no plan is inside a DB operation and the mutex is free
NoCalls == [holder |-> 0, pc |-> [p \in Plans |-> "idle"], call |-> [p \in Plans |-> ""],
            obj |-> [p \in Plans |-> Nil], name |-> [p \in Plans |-> ""]]

\* no call of AddBasicComparison in the last step of the resolver
NoBasic == [called |-> FALSE, class |-> "", property |-> "", o |-> "", data |-> Nil,
            before |-> <<>>]
\* no parameter resolved yet; else the parameter the resolver handled last,
\* with the comparisons and the DB it found
NoResolved == [set |-> FALSE, class |-> "", property |-> "", given |-> FALSE,
               value |-> Nil, before |-> <<>>, db |-> EmptyMap]
\* no response yet
NoResp == [status |-> 0, body |-> Nil]
\* what ProcessResult has not yet told
NoTrack == [stage |-> "", firstErr |-> "", late |-> 0]
\* a Test before Duplicate hands it to Run
NoTest == [pc |-> "idle", op |-> "", Method |-> "", Strict |-> FALSE,
           Expect |-> [kind |-> "none", num |-> 0, body |-> Nil],
           params |-> EmptyMap, body |-> <<>>,
           \* the name of the step; BodyParams when it is no map; the parameters
           \* as the plan gave them and as ResolveHistoryParameters left them
           name |-> "", other |-> <<>>,
           given |-> [params |-> EmptyMap, body |-> <<>>, other |-> <<>>],
           afterHistory |-> [params |-> EmptyMap, body |-> <<>>, other |-> <<>>],
           comparisons |-> [c \in DOMAIN Definitions |-> <<>>],
           i |-> 0, err |-> "", entered |-> FALSE, dbStart |-> EmptyMap,
           basic |-> NoBasic, resolved |-> NoResolved, resp |-> NoResp,
           track |-> NoTrack,
           \* the step as the plan gave it, and the DB and the comparisons when
           \* the request went out
           expect0 |-> [kind |-> "none", num |-> 0, body |-> Nil],
           sent |-> [db |-> EmptyMap, comps |-> [c \in DOMAIN Definitions |-> <<>>]]]

\* the names of steps that a back-reference of the plans names
RefNames == {"S1"}
\* no test has completed
NoHistory == [n \in RefNames |-> <<>>]

\* what the next operation remembers of the one that just ran
Summary ==
    IF op = "Insert" /\ ~aborted /\ ret.err = ""
    THEN [op |-> "Insert", name |-> args.name, obj |-> args.obj,
          size |-> Len(ObjectsOf(pre, args.name))]
    ELSE NoPrev

Init ==
    /\ \E last \in DOMAIN Definitions : schemas = DBInit(last)
    /\ aborted = FALSE
    /\ op = "Init"
    /\ args = NoArgs
    /\ ret = NoRet
    /\ pre = EmptyMap
    /\ prev = NoPrev
    /\ inserted = [n \in AllNames |-> {}]
    /\ gen = NoGen
    /\ mu = NoCalls
    /\ test = NoTest
    /\ history = NoHistory

DoInit ==
    /\ ~aborted /\ op = ""
    /\ \E last \in DOMAIN Definitions : schemas' = DBInit(last)
    /\ op' = "Init"
    /\ args' = NoArgs
    /\ ret' = NoRet
    /\ pre' = schemas
    /\ UNCHANGED prev
    /\ inserted' = [n \in AllNames |-> {}]
    /\ UNCHANGED <<aborted, gen, mu, test, history>>

\* DB.Insert(name, schema, obj)
DBInsert(name, schema, obj) ==
    LET db == WithSchemaDB(schemas, name, schema) IN
    /\ ~aborted /\ op = ""
    /\ op' = "Insert"
    /\ args' = [NoArgs EXCEPT !.name = name, !.obj = obj]
    /\ pre' = schemas
    /\ UNCHANGED prev
    /\ UNCHANGED <<gen, mu, test, history>>
    /\ \E outcome \in MatchesOutcomes(db[name].Schema, obj) :
        IF outcome = "panic" \/ (outcome = "false" /\ obj.kind = "nil")
        THEN \* MatchesMap panics; reflect.TypeOf(nil).Kind() panics
             /\ aborted' = TRUE
             /\ schemas' = db
             /\ ret' = NoRet
             /\ UNCHANGED inserted
        ELSE IF outcome = "false"
        THEN /\ schemas' = db
             /\ ret' = [NoRet EXCEPT !.err = "MISMATCH"]
             /\ UNCHANGED <<aborted, inserted>>
        ELSE /\ TotalObjects(schemas) < MaxObjects
             /\ schemas' = [db EXCEPT ![name].Objects = SchemaDBInsert(@, obj)]
             /\ ret' = NoRet
             /\ inserted' = [inserted EXCEPT ![name] = @ \cup {obj}]
             /\ UNCHANGED aborted

\* DB.Find(name, criteria, matches, desiredCount)
DBFind(name, criteria, pred, desiredCount) ==
    /\ ~aborted /\ op = ""
    /\ op' = "Find"
    /\ args' = [NoArgs EXCEPT !.name = name, !.obj = criteria, !.pred = pred,
                              !.k = desiredCount]
    /\ pre' = schemas
    /\ UNCHANGED prev
    /\ ret' = IF name \notin DOMAIN schemas THEN NoRet
              ELSE [NoRet EXCEPT !.found =
                        SchemaDBFind(schemas[name].Objects, criteria, pred, desiredCount)]
    /\ UNCHANGED <<schemas, aborted, inserted, gen, mu, test, history>>

\* DB.Delete(name, criteria, matches, desiredCount)
DBDelete(name, criteria, pred, desiredCount) ==
    /\ ~aborted /\ op = ""
    /\ op' = "Delete"
    /\ args' = [NoArgs EXCEPT !.name = name, !.obj = criteria, !.pred = pred,
                              !.k = desiredCount]
    /\ pre' = schemas
    /\ UNCHANGED prev
    /\ inserted' = [inserted EXCEPT ![name] = {}]
    /\ UNCHANGED <<aborted, gen, mu, test, history>>
    /\ IF name \notin DOMAIN schemas
       THEN /\ ret' = NoRet
            /\ UNCHANGED schemas
       ELSE LET r == SchemaDBDelete(schemas[name].Objects, criteria, pred, desiredCount)
            IN  /\ schemas' = [schemas EXCEPT ![name].Objects = r.Objects]
                /\ ret' = [NoRet EXCEPT !.count = r.count]

\* DB.Update(name, criteria, matches, newObj, desiredCount, patch)
DBUpdate(name, criteria, pred, newObj, desiredCount, patch) ==
    /\ ~aborted /\ op = ""
    /\ op' = "Update"
    /\ args' = [name |-> name, obj |-> criteria, pred |-> pred, k |-> desiredCount,
                newObj |-> newObj, patch |-> patch]
    /\ pre' = schemas
    /\ UNCHANGED prev
    /\ inserted' = [inserted EXCEPT ![name] = {}]
    /\ UNCHANGED <<aborted, gen, mu, test, history>>
    /\ IF name \notin DOMAIN schemas
       THEN /\ ret' = NoRet
            /\ UNCHANGED schemas
       ELSE LET r == SchemaDBUpdate(schemas[name].Objects, criteria, pred, newObj.map,
                                    desiredCount, patch)
            IN  /\ schemas' = [schemas EXCEPT ![name].Objects = r.Objects]
                /\ ret' = [NoRet EXCEPT !.count = r.count]

\* the caller of the operation goes on with what it returned
Return ==
    /\ ~aborted /\ op # ""
    /\ op' = ""
    /\ args' = NoArgs
    /\ ret' = NoRet
    /\ pre' = EmptyMap
    /\ prev' = Summary
    /\ UNCHANGED <<schemas, aborted, inserted, gen, mu, test, history>>

Insert == \E name \in OpNames, obj \in InsertObjs : DBInsert(name, InsertSchema, obj)
Find == \E name \in OpNames, q \in Queries, k \in Counts : DBFind(name, q[1], q[2], k)
Delete == \E name \in OpNames, q \in Queries, k \in Counts : DBDelete(name, q[1], q[2], k)
Update ==
    \E name \in OpNames, q \in Queries, k \in Counts, u \in Updates :
        DBUpdate(name, q[1], q[2], u[1], k, u[2])

Next == DoInit \/ Insert \/ Find \/ Delete \/ Update \/ Return

Spec == Init /\ [][Next]_vars

---------------------------------------------------------------------------
(* Properties of the DB operations, read off the state an operation left *)

Elems(seq) == {seq[i] : i \in DOMAIN seq}
Occ(seq, x) == Cardinality({i \in DOMAIN seq : seq[i] = x})

Before == ObjectsOf(pre, args.name)
After == ObjectsOf(schemas, args.name)
\* the MatchFunc of the call applied to the criteria of the call
Hit(o) == ApplyMatch(args.pred, args.obj, o)
HitCount(seq) == Cardinality({i \in DOMAIN seq : Hit(seq[i])})
OthersUntouched == \A n \in (DOMAIN pre \cup DOMAIN schemas) \ {args.name} :
                        ObjectsOf(schemas, n) = ObjectsOf(pre, n)
\* no match before index i
FirstHit(seq, i) == i \in DOMAIN seq /\ Hit(seq[i]) /\ \A j \in 1..(i - 1) : ~Hit(seq[j])

\* C1: Delete with k >= 1 removes only objects the predicate accepts, at most k
\* of them, keeps every other object of the list (as a multiset) and returns
\* the number of objects it removed.
C1_DeleteRemovesOnlyMatches ==
    (op = "Delete" /\ args.k >= 1) =>
        /\ \A o \in Elems(Before) \cup Elems(After) :
              /\ Occ(After, o) <= Occ(Before, o)
              /\ ~Hit(o) => Occ(After, o) = Occ(Before, o)
        /\ ret.count = Len(Before) - Len(After)
        /\ ret.count <= args.k
        /\ OthersUntouched

\* a Delete that removed a match stored behind an object that does not match
C1_Witness ==
    /\ op = "Delete" /\ args.k >= 1 /\ ret.count >= 1
    /\ \E i, j \in DOMAIN Before : i < j /\ ~Hit(Before[i]) /\ Hit(Before[j])
    /\ Len(After) >= 1

\* C2: Delete with k = -1 leaves no object that the predicate accepts and
\* returns the number of objects that matched before the call.
C2_DeleteAllMatches ==
    (op = "Delete" /\ args.k = -1) =>
        /\ \A i \in DOMAIN After : ~Hit(After[i])
        /\ ret.count = HitCount(Before)

\* the first k elements of seq, all of it when it is shorter
FirstK(seq, k) == SubSeq(seq, 1, IF Len(seq) < k THEN Len(seq) ELSE k)

\* C3: Find returns, in storage order, the first k matches for k >= 1 and all
\* matches for k = -1, nothing for an unknown name, and changes no list.
C3_FindReturnsFirstK ==
    op = "Find" =>
        /\ ret.found = IF args.k = -1 THEN SelectSeq(Before, Hit)
                       ELSE FirstK(SelectSeq(Before, Hit), args.k)
        /\ schemas = pre

\* C4: a patch Update with newObj {a:1,b:2} and k = 1, whose first match is
\* the stored object {a:0,c:3}, returns 1 and leaves {a:1,b:2,c:3} stored.
C4_PatchMerge ==
    (/\ op = "Update" /\ args.patch /\ args.newObj = A12 /\ args.k = 1
     /\ \E i \in DOMAIN Before : Before[i] = A03 /\ FirstHit(Before, i)) =>
        /\ ret.count = 1
        /\ A123 \in Elems(After)

\* C5: every object stored under a name matches the schema of that name.
C5_StoredObjectsMatch ==
    \A n \in DOMAIN schemas : \A i \in DOMAIN schemas[n].Objects :
        Matches(schemas[n].Schema, schemas[n].Objects[i])

\* the schema DB.Insert checked the object against
InsertCheckedSchema == WithSchemaDB(pre, args.name, InsertSchema)[args.name].Schema
AllListsUntouched == \A n \in DOMAIN pre \cup DOMAIN schemas :
                        ObjectsOf(schemas, n) = ObjectsOf(pre, n)

\* C6: Insert returns MISMATCH and leaves every list as it was when the object
\* does not match the schema; it appends the object and returns no error when
\* it matches.
C6_InsertChecksSchema ==
    op = "Insert" =>
        IF Matches(InsertCheckedSchema, args.obj)
        THEN ~aborted /\ ret.err = "" /\ After = Append(Before, args.obj)
        ELSE ~aborted /\ ret.err = "MISMATCH" /\ AllListsUntouched

\* the Delete that ran is Delete(n, o, InterfaceEquals, -1) right after an
\* accepted Insert(n, o)
RoundTrip ==
    /\ op = "Delete" /\ prev.op = "Insert"
    /\ args.name = prev.name /\ args.obj = prev.obj
    /\ args.pred = "InterfaceEquals" /\ args.k = -1

C8_FindInserted ==
    (/\ op = "Find" /\ args.pred = "InterfaceEquals" /\ args.k = 1
     /\ args.obj \in inserted[args.name]) =>
        Len(ret.found) = 1 /\ ret.found[1] = args.obj

\* the object is found behind another one, and is stored twice
C8_Witness ==
    /\ op = "Find" /\ args.pred = "InterfaceEquals" /\ args.k = 1
    /\ args.obj \in inserted[args.name]
    /\ Len(ret.found) = 1
    /\ Before[1] # args.obj
    /\ Occ(Before, args.obj) >= 2

RECURSIVE Referred(_)
\* the schema Matches ends up checking against, behind the $refs
Referred(schema) ==
    IF GetReferredSchema(schema).found THEN Referred(ReferredSchema(schema)) ELSE schema

LacksRequired(schema, object) ==
    /\ object.kind = "map"
    /\ TypeContains(Referred(schema), TYPE_OBJECT)
    /\ \E i \in DOMAIN Referred(schema).Required :
          MapGet(object.map, Referred(schema).Required[i]).kind = "nil"

\* C9: Insert of a map that lacks a required key returns MISMATCH, does not
\* abort the process and changes no list.
C9_MissingRequiredIsMismatch ==
    (op = "Insert" /\ LacksRequired(InsertCheckedSchema, args.obj)) =>
        ~aborted /\ ret.err = "MISMATCH" /\ AllListsUntouched

---------------------------------------------------------------------------
(* Test.GenerateSchema and the generate* helpers: the set of results a call *)
(* can have, each [value, err]; err is "" for a value, "INVALID", or        *)
(* "panic".  A tag is <<>> (nil) or <<class>>.                              *)

\* array lengths tried, at most (rand.Intn(10) goes up to 9)
MaxGenItems == 2

GenInts == {IntV(0), IntV(1)}
GenFloats == {FloatV(0), FloatV(1)}
GenStrings == {StrV(0), StrV(1)}

GenValue(v) == [value |-> v, err |-> ""]
GenError(e) == [value |-> Nil, err |-> e]
OkValues(results) == {r.value : r \in {x \in results : x.err = ""}}
Errors(results) == {r \in results : r.err # ""}

\* generateEnum
generateEnum(e) == {GenValue(e[i]) : i \in DOMAIN e}

\* generateByType with paramSpec = nil
generateByType(schema) ==
    IF schema.Type = <<>> THEN {GenError("INVALID")}
    ELSE CASE schema.Type[1] = TYPE_BOOLEAN -> {GenValue(BoolV(TRUE)), GenValue(BoolV(FALSE))}
           [] schema.Type[1] = TYPE_INTEGER -> {GenValue(v) : v \in GenInts}
           [] schema.Type[1] = TYPE_NUMBER -> {GenValue(v) : v \in GenFloats}
           [] schema.Type[1] = TYPE_STRING -> {GenValue(v) : v \in GenStrings}
           [] schema.Type[1] = "file" -> {GenValue(v) : v \in GenStrings}
           [] OTHER -> {GenError("INVALID")}

RECURSIVE GenerateSchema(_, _)
RECURSIVE CombineAllOf(_, _, _)

\* generateObject: every property is generated with a nil parent tag
generateObject(tag, schema) ==
    LET props == DOMAIN schema.Properties
        res(k) == GenerateSchema(<<>>, schema.Properties[k])
        all == UNION {OkValues(res(k)) : k \in props}
    IN  UNION {Errors(res(k)) : k \in props}
        \cup {GenValue(MapV(f)) : f \in {g \in [props -> all] :
                                            \A k \in props : g[k] \in OkValues(res(k))}}

\* generateArray, for a schema without minItems and maxItems
generateArray(tag, schema) ==
    IF schema.Items = <<>> THEN {GenError("panic")}
    ELSE LET res == GenerateSchema(tag, schema.Items[1])
             top == IF MaxGenItems < 9 THEN MaxGenItems ELSE 9
         IN  (IF top >= 1 THEN Errors(res) ELSE {})
             \cup UNION {{GenValue(ArrV(ar)) : ar \in [1..n -> OkValues(res)]} : n \in 0..top}

\* the discriminator the loop over AllOf ends with
AllOfDiscriminator(allOf) ==
    LET disc(s) == IF s.Discriminator # "" THEN s.Discriminator
                   ELSE IF GetReferredSchema(s).found
                        THEN ReferredSchema(s).Discriminator ELSE ""
        set == {i \in DOMAIN allOf : disc(allOf[i]) # ""}
    IN  IF set = {} THEN "" ELSE disc(allOf[CHOOSE i \in set : \A j \in set : j <= i])

\* the loop over schema.AllOf from member i, combined so far
CombineAllOf(allOf, i, combined) ==
    IF i > Len(allOf) THEN {GenValue(MapV(combined))}
    ELSE LET res == GenerateSchema(<<>>, allOf[i])
         IN  Errors(res)
             \cup UNION {IF v.kind = "map"
                         THEN CombineAllOf(allOf, i + 1, MapCombine(combined, v.map))
                         ELSE {GenError("INVALID")} : v \in OkValues(res)}

GenerateSchema(parentTag, schema) ==
    LET tag == parentTag
        r == GetReferredSchema(schema)
    IN  IF r.err THEN {GenError("INVALID")}
        ELSE IF r.found THEN GenerateSchema(<<r.name>>, ReferredSchema(schema))
        ELSE IF schema.Enum # <<>> THEN generateEnum(schema.Enum)
        ELSE IF schema.AllOf # <<>> THEN
            LET disc == AllOfDiscriminator(schema.AllOf)
                res == CombineAllOf(schema.AllOf, 1, EmptyMap)
            IN  Errors(res)
                \cup {IF disc = "" THEN GenValue(v)
                      ELSE IF tag = <<>> THEN GenError("panic")
                      ELSE IF tag[1] = "" THEN GenValue(v)
                      ELSE GenValue(MapV(MapCombine(v.map, (disc :> NameString(tag[1])))))
                      : v \in OkValues(res)}
        ELSE IF schema.Type = <<>> THEN {GenError("INVALID")}
        ELSE IF schema.Type[1] = TYPE_OBJECT THEN generateObject(tag, schema)
        ELSE IF schema.Type[1] = TYPE_ARRAY THEN generateArray(tag, schema)
        ELSE generateByType(schema)

\* the default maximum of generateInt, 10000.0, in hundredths
DefaultMaxf == 1000000

\* s after generateInt: `s.Maximum = &maxf` when it has neither bound
WithDefaultMaximum(s) ==
    IF s.Maximum = <<>> /\ s.Minimum = <<>> THEN [s EXCEPT !.Maximum = <<DefaultMaxf>>]
    ELSE s

\* whether GenerateSchema hands the schema itself to generateByType
IsPrimitive(schema, t) ==
    /\ schema.Ref = "" /\ schema.Enum = <<>> /\ schema.AllOf = <<>>
    /\ schema.Type # <<>> /\ schema.Type[1] = t

\* the schema the caller passed, as the call leaves it: generateInt is reached
\* with the pointer the caller gave for an integer schema and, through
\* schema.Items.Schema, for the items of an array that got an item; the
\* properties of an object and the members of allOf are generated from
\* copies (&v, &s of the range)
SchemaAfter(schema, r) ==
    IF IsPrimitive(schema, TYPE_INTEGER) THEN WithDefaultMaximum(schema)
    ELSE IF /\ IsPrimitive(schema, TYPE_ARRAY) /\ schema.Items # <<>>
            /\ IsPrimitive(schema.Items[1], TYPE_INTEGER)
            /\ r.err = "" /\ r.value.arr # <<>>
         THEN [schema EXCEPT !.Items = <<WithDefaultMaximum(schema.Items[1])>>]
    ELSE schema

\* schemas handed to GenerateSchema
Dog == AllOfSchema(<<RefSchema("Pet"),
                     [ObjectSchema(<<"kind">>, [kind |-> TypeSchema(TYPE_STRING)])
                        EXCEPT !.Discriminator = "kind"]>>)
GenSchemas ==
    {TypeSchema(TYPE_INTEGER), TypeSchema(TYPE_NUMBER), TypeSchema(TYPE_STRING),
     TypeSchema(TYPE_BOOLEAN), TypeSchema("file"), TypeSchema(TYPE_NULL), NoSchema,
     PetSchema, RefSchema("Pet"), RefSchema("Count"), RefSchema("Missing"),
     ArraySchema(TypeSchema(TYPE_INTEGER)), ArraySchema(RefSchema("Pet")),
     EnumSchema(<<StrV(2), IntV(1)>>),
     [TypeSchema(TYPE_STRING) EXCEPT !.Enum = <<StrV(2), StrV(3)>>],
     AllOfSchema(<<RefSchema("Pet"), ObjectSchema(<<>>, [d |-> TypeSchema(TYPE_STRING)])>>),
     Dog,
     AllOfSchema(<<RefSchema("Count")>>),
     ObjectSchema(<<"id">>, [a |-> TypeSchema(TYPE_INTEGER)]),
     ObjectSchema(<<"p">>, [p |-> RefSchema("Pet"), n |-> TypeSchema(TYPE_NUMBER)])}
GenTags == {<<>>, <<"Dog">>}

\* a call of Test.GenerateSchema(name, parentTag, schema, db)
Generate ==
    /\ ~aborted
    /\ \E schema \in GenSchemas, tag \in GenTags :
         \E r \in GenerateSchema(tag, schema) :
            /\ gen' = [schema |-> schema, value |-> r.value, err |-> r.err, called |-> TRUE,
                       after |-> SchemaAfter(schema, r)]
            /\ aborted' = (r.err = "panic")
    /\ UNCHANGED <<schemas, op, args, ret, pre, prev, inserted, mu, test, history>>

GenNext == Generate

SpecGen == Init /\ [][GenNext]_vars

\* C10: every value GenerateSchema returns for a schema matches that schema.
C10_GeneratedValueMatches ==
    (gen.called /\ gen.err = "") => Matches(gen.schema, gen.value)

\* C11: for a schema with a non-empty enum and an empty type set, Matches is
\* true of every non-nil value of the enum.
C11_UntypedEnumAccepted ==
    (gen.called /\ gen.schema.Enum # <<>> /\ gen.schema.Type = <<>>
        /\ gen.schema.Ref = "") =>
        \A i \in DOMAIN gen.schema.Enum :
            gen.schema.Enum[i].kind # "nil" => Matches(gen.schema, gen.schema.Enum[i])

---------------------------------------------------------------------------
(* The DB operations as functions of db.schemas, for the callers below *)

\* DB.Insert: what it can leave, [db, err]; err is "", "MISMATCH" or "panic"
InsertOutcomes(db, name, schema, obj) ==
    LET d == WithSchemaDB(db, name, schema)
    IN  {IF o = "panic" \/ (o = "false" /\ obj.kind = "nil")
         THEN [db |-> d, err |-> "panic"]
         ELSE IF o = "false" THEN [db |-> d, err |-> "MISMATCH"]
         ELSE [db |-> [d EXCEPT ![name].Objects = SchemaDBInsert(@, obj)], err |-> ""]
            : o \in MatchesOutcomes(d[name].Schema, obj)}

\* DB.Find
FindIn(db, name, criteria, pred, desiredCount) ==
    IF name \notin DOMAIN db THEN <<>>
    ELSE SchemaDBFind(db[name].Objects, criteria, pred, desiredCount)

\* DB.Delete: [db, count]
DeleteIn(db, name, criteria, pred, desiredCount) ==
    IF name \notin DOMAIN db THEN [db |-> db, count |-> 0]
    ELSE LET r == SchemaDBDelete(db[name].Objects, criteria, pred, desiredCount)
         IN  [db |-> [db EXCEPT ![name].Objects = r.Objects], count |-> r.count]

\* DB.Update: [db, count]
UpdateIn(db, name, criteria, pred, newObj, desiredCount, patch) ==
    IF name \notin DOMAIN db THEN [db |-> db, count |-> 0]
    ELSE LET r == SchemaDBUpdate(db[name].Objects, criteria, pred, newObj,
                                 desiredCount, patch)
         IN  [db |-> [db EXCEPT ![name].Objects = r.Objects], count |-> r.count]

\* DB.FindMatchingSchema: the names it can return in some order of the range
\* over db.schemas, "" for none, "panic" when Matches panics on the way
FindMatchingSchema(db, obj) ==
    LET matching == {n \in DOMAIN db : "true" \in MatchesOutcomes(db[n].Schema, obj)}
        panicking == {n \in DOMAIN db : "panic" \in MatchesOutcomes(db[n].Schema, obj)}
    IN  matching \cup (IF panicking # {} THEN {"panic"} ELSE {})
                 \cup (IF matching = {} /\ panicking = {} THEN {""} ELSE {})

---------------------------------------------------------------------------
(* Plans running concurrently on one DB: a public operation is called, takes *)
(* db.mutex if its code does, reads or writes db.schemas, and returns        *)
(* (the deferred Unlock).                                                    *)

MuOps == {"Init", "Insert", "Find", "Delete", "Update", "FindMatchingSchema"}
\* the operations whose first statement is db.mutex.Lock()
Locks(call) == call \in {"Insert", "Find", "Delete", "Update"}
MuObjs == {A12}

Call(p) ==
    /\ ~aborted /\ mu.pc[p] = "idle"
    /\ \E c \in MuOps, n \in OpNames, o \in MuObjs :
         mu' = [mu EXCEPT !.pc[p] = "called", !.call[p] = c, !.name[p] = n, !.obj[p] = o]
    /\ UNCHANGED <<schemas, aborted, op, args, ret, pre, prev, inserted, gen, test, history>>

\* db.mutex.Lock()
Lock(p) ==
    /\ ~aborted /\ mu.pc[p] = "called" /\ Locks(mu.call[p])
    /\ mu.holder = 0
    /\ mu' = [mu EXCEPT !.holder = p, !.pc[p] = "locked"]
    /\ UNCHANGED <<schemas, aborted, op, args, ret, pre, prev, inserted, gen, test, history>>

\* the operation starts on db.schemas
Access(p) ==
    /\ ~aborted
    /\ \/ mu.pc[p] = "locked"
       \/ mu.pc[p] = "called" /\ ~Locks(mu.call[p])
    /\ mu' = [mu EXCEPT !.pc[p] = "access"]
    /\ UNCHANGED <<schemas, aborted, op, args, ret, pre, prev, inserted, gen, test, history>>

\* the operation is through with db.schemas
Effect(p) ==
    LET c == mu.call[p]
        n == mu.name[p]
        o == mu.obj[p]
    IN  /\ ~aborted /\ mu.pc[p] = "access"
        /\ mu' = [mu EXCEPT !.pc[p] = IF Locks(c) THEN "accessed" ELSE "idle",
                            !.call[p] = IF Locks(c) THEN c ELSE ""]
        /\ CASE c = "Init" ->
                  /\ \E last \in DOMAIN Definitions : schemas' = DBInit(last)
                  /\ UNCHANGED aborted
             [] c = "Insert" ->
                  \E r \in InsertOutcomes(schemas, n, InsertSchema, o) :
                     /\ r.err = "" => TotalObjects(schemas) < MaxObjects
                     /\ schemas' = r.db
                     /\ aborted' = (r.err = "panic")
             [] c = "Find" ->
                  UNCHANGED <<schemas, aborted>>
             [] c = "Delete" ->
                  /\ schemas' = DeleteIn(schemas, n, o, "InterfaceEquals", 1).db
                  /\ UNCHANGED aborted
             [] c = "Update" ->
                  /\ schemas' = UpdateIn(schemas, n, Nil, "MatchAlways", o.map, 1, TRUE).db
                  /\ UNCHANGED aborted
             [] c = "FindMatchingSchema" ->
                  /\ aborted' = ("panic" \in FindMatchingSchema(schemas, o))
                  /\ UNCHANGED schemas
        /\ UNCHANGED <<op, args, ret, pre, prev, inserted, gen, test, history>>

\* the deferred db.mutex.Unlock()
Unlock(p) ==
    /\ ~aborted /\ mu.pc[p] = "accessed"
    /\ mu' = [mu EXCEPT !.holder = 0, !.pc[p] = "idle", !.call[p] = ""]
    /\ UNCHANGED <<schemas, aborted, op, args, ret, pre, prev, inserted, gen, test, history>>

MuNext == \E p \in Plans : Call(p) \/ Lock(p) \/ Access(p) \/ Effect(p) \/ Unlock(p)

SpecMutex == Init /\ [][MuNext]_vars

\* p is at db.schemas
AtSchemas(p) == mu.pc[p] = "access"
\* p is between Lock and Unlock
InCriticalSection(p) == mu.holder = p /\ mu.pc[p] \in {"locked", "access", "accessed"}

\* C12: while one operation is inside its critical section, no operation of
\* another plan reads or writes db.schemas.
C12_MutexGuardsSchemas ==
    \A p, q \in Plans : (p # q /\ InCriticalSection(q)) => ~AtSchemas(p)

---------------------------------------------------------------------------
(* The Comparison set of a Test (mqplan).  A Go map that may be nil is a    *)
(* map with a flag; both old and oldUsed are nil or both are not.  ref > 0  *)
(* says that comp.old is the very map stored at that index of the class's   *)
(* list in the DB (generateByType puts the map Find returned into old).     *)

MethodGet == "get"
MethodPost == "post"
MethodPut == "put"
MethodPatch == "patch"
MethodDelete == "delete"

\* &Comparison{nil, nil, nil, schema}
NoComp == [old |-> EmptyMap, hasOld |-> FALSE, oldUsed |-> EmptyMap,
           new |-> EmptyMap, hasNew |-> FALSE, ref |-> 0]

\* m[key] = value
MapSet(m, key, value) == [k \in DOMAIN m \cup {key} |-> IF k = key THEN value ELSE m[k]]

\* a *MeqaTag: <<>> is nil
Tag(class, property, operation) ==
    <<[Class |-> class, Property |-> property, Operation |-> operation]>>

\* Comparison.GetMapByOp: the comparison after the maps it makes
GetMapByOp(comp, o) ==
    IF o = MethodGet
    THEN IF ~comp.hasOld
         THEN [comp EXCEPT !.hasOld = TRUE, !.old = EmptyMap, !.oldUsed = EmptyMap]
         ELSE comp
    ELSE IF ~comp.hasNew THEN [comp EXCEPT !.hasNew = TRUE, !.new = EmptyMap] ELSE comp

\* Comparison.SetForOp: [comp, newComp, wrote]; newComp is what the function
\* returns, <<>> for nil: the comparison made on a collision is assigned to a
\* variable of the inner block and the outer newComp stays nil.  wrote says
\* that m[key] = value went to comp's own map.
SetForOp(comp, o, key, value) ==
    LET c1 == GetMapByOp(comp, o)
        m == IF o = MethodGet THEN c1.old ELSE c1.new
        fresh == key \notin DOMAIN m
        c2 == IF ~fresh THEN c1
              ELSE IF o = MethodGet THEN [c1 EXCEPT !.old = MapSet(@, key, value)]
              ELSE [c1 EXCEPT !.new = MapSet(@, key, value)]
        \* m[key] is value on both paths
        c3 == IF o = MethodGet THEN [c2 EXCEPT !.oldUsed = MapSet(@, key, value)] ELSE c2
    IN  [comp |-> c3, newComp |-> <<>>, wrote |-> fresh]

\* the list with its last element replaced
SetLast(list, c) == [list EXCEPT ![Len(list)] = c]

\* the operation AddBasicComparison files the value under
BasicOp(tag, paramSpec) ==
    IF tag[1].Operation # "" THEN tag[1].Operation
    ELSE IF paramSpec.In = "formData" \/ paramSpec.In = "body" THEN MethodPut
    ELSE MethodGet

\* Test.AddBasicComparison with a non-nil paramSpec: [comps, db]
AddBasicComparison(comps, db, tag, paramSpec, data) ==
    IF tag = <<>> \/ tag[1].Class = "" \/ tag[1].Property = ""
    THEN [comps |-> comps, db |-> db]
    ELSE LET class == tag[1].Class
             o == BasicOp(tag, paramSpec)
         IN  IF Len(comps[class]) > 0
             THEN LET comp == comps[class][Len(comps[class])]
                      r == SetForOp(comp, o, tag[1].Property, data)
                      list == SetLast(comps[class], r.comp)
                  IN  [comps |-> [comps EXCEPT ![class] = list \o r.newComp],
                       \* old is the stored map itself: the write lands in the DB
                       db |-> IF o = MethodGet /\ r.wrote /\ comp.ref > 0
                              THEN [db EXCEPT ![class].Objects[comp.ref] = MapV(r.comp.old)]
                              ELSE db]
             ELSE [comps |-> [comps EXCEPT ![class] =
                                Append(@, SetForOp(NoComp, o, tag[1].Property, data).comp)],
                   db |-> db]

\* Test.AddObjectComparison with a tag that has a class; method is t.Method
\* (no tag on the operation)
AddObjectComparison(comps, method, tag, obj) ==
    IF tag = <<>> THEN comps
    ELSE LET class == tag[1].Class
             m == IF tag[1].Operation # "" THEN tag[1].Operation ELSE method
         IN  IF m \in {MethodPost, MethodPut, MethodPatch}
             THEN IF Len(comps[class]) > 0 /\ ~comps[class][Len(comps[class])].hasNew
                  THEN [comps EXCEPT ![class] =
                            SetLast(@, [@[Len(@)] EXCEPT !.hasNew = TRUE, !.new = obj])]
                  ELSE [comps EXCEPT ![class] =
                            Append(@, [NoComp EXCEPT !.hasNew = TRUE, !.new = obj])]
             ELSE comps

---------------------------------------------------------------------------
(* Test.ResolveParameters, one parameter of t.op.Parameters at a time *)

\* a non-body parameter of type integer, tagged <meqa class.property>
Param(name, in, class, property) ==
    [Name |-> name, In |-> in, Tag |-> Tag(class, property, ""), Schema |-> <<>>]
\* a non-body parameter of type integer without a tag
PlainParam(name, in) == [Name |-> name, In |-> in, Tag |-> <<>>, Schema |-> <<>>]
\* a body parameter
BodyParam(schema) == [Name |-> "body", In |-> "body", Tag |-> <<>>, Schema |-> <<schema>>]

\* the operations of the swagger document, by (path, method)
SwaggerOps ==
    [listPets |-> [Method |-> MethodGet,
                   Parameters |-> <<PlainParam("limit", "query")>>],
     getPet |-> [Method |-> MethodGet,
                 Parameters |-> <<Param("a", "path", "Pet", "a")>>],
     getPets |-> [Method |-> MethodGet,
                  Parameters |-> <<Param("a", "query", "Pet", "a"),
                                   Param("d", "query", "Pet", "d")>>],
     getBulk |-> [Method |-> MethodGet,
                  Parameters |-> <<Param("a1", "query", "Pet", "a"),
                                   Param("a2", "query", "Pet", "a")>>],
     postPet |-> [Method |-> MethodPost, Parameters |-> <<BodyParam(RefSchema("Pet"))>>],
     postPetOf |-> [Method |-> MethodPost,
                    Parameters |-> <<Param("o", "path", "Count", "b"),
                                     BodyParam(RefSchema("Pet"))>>],
     patchPet |-> [Method |-> MethodPatch,
                   Parameters |-> <<Param("a", "path", "Pet", "a"),
                                    BodyParam(RefSchema("Pet"))>>],
     putPet |-> [Method |-> MethodPut,
                 Parameters |-> <<Param("a", "path", "Pet", "a"),
                                  BodyParam(RefSchema("Pet"))>>],
     deletePet |-> [Method |-> MethodDelete,
                    Parameters |-> <<Param("a", "path", "Pet", "a")>>]]

\* mqutil.MapReplace(dst, src): src laid over dst, in dst itself
MapReplace(dst, src) ==
    [k \in DOMAIN dst \cup DOMAIN src |-> IF k \in DOMAIN src THEN src[k] ELSE dst[k]]

\* the objects followed, of those the generator can draw for a body
BodyDraws == {MapV([a |-> IntV(1), b |-> IntV(0), c |-> IntV(0)])}

\* what one parameter leaves: [comps, db, value, err, basic]
ResolveResult(comps, db, value, err, basic) ==
    [comps |-> comps, db |-> db, value |-> value, err |-> err, basic |-> basic]

\* the call AddBasicComparison(tag, paramSpec, data), remembered with its class's list
BasicCall(comps, tag, paramSpec, data) ==
    IF tag = <<>> \/ tag[1].Class = "" \/ tag[1].Property = "" THEN NoBasic
    ELSE [called |-> TRUE, class |-> tag[1].Class, property |-> tag[1].Property,
          o |-> BasicOp(tag, paramSpec), data |-> data, before |-> comps[tag[1].Class]]

\* the index of the first comparison of the list with a non-nil old, 0 for none
FirstWithOld(list) ==
    IF \E j \in DOMAIN list : list[j].hasOld
    THEN CHOOSE j \in DOMAIN list : list[j].hasOld /\ \A h \in 1..(j - 1) : ~list[h].hasOld
    ELSE 0

\* a generateByType that never looks for a value to use again
generateByTypeParamFresh(comps, db, tag, paramSpec) ==
    {LET r == AddBasicComparison(comps, db, tag, paramSpec, v)
     IN  ResolveResult(r.comps, r.db, v, "", BasicCall(comps, tag, paramSpec, v))
        : v \in GenInts}

\* Test.generateByType for a parameter (paramSpec # nil) of type integer
generateByTypeParam(comps, db, tag, paramSpec) ==
    LET class == tag[1].Class
        prop == tag[1].Property
        j == FirstWithOld(comps[class])
        ar == FindIn(db, class, Nil, "MatchAlways", 5)
        generated ==
            {LET r == AddBasicComparison(comps, db, tag, paramSpec, v)
             IN  ResolveResult(r.comps, r.db, v, "", BasicCall(comps, tag, paramSpec, v))
                : v \in GenInts}
    IN  IF tag = <<>> \/ prop = "" THEN generated
        ELSE IF j > 0
        THEN LET c == comps[class][j]
                 v == MapGet(c.old, prop)
             IN  {ResolveResult([comps EXCEPT ![class][j].oldUsed = MapSet(@, prop, v)],
                                db, v, "", NoBasic)}
        ELSE IF Len(ar) > 0
        THEN {IF ar[n].kind # "map"
              THEN ResolveResult(comps, db, Nil, "panic", NoBasic)
              ELSE LET v == MapGet(ar[n].map, prop)
                       comp == [NoComp EXCEPT !.hasOld = TRUE, !.old = ar[n].map,
                                              !.oldUsed = MapSet(EmptyMap, prop, v),
                                              !.ref = n]
                   IN  ResolveResult([comps EXCEPT ![class] = Append(@, comp)],
                                     db, v, "", NoBasic)
                : n \in DOMAIN ar}
        ELSE generated

RECURSIVE GetSchemaRootType(_, _)
\* Test.GetSchemaRootType: [tag, found], found says that a schema is returned
GetSchemaRootType(schema, parentTag) ==
    LET r == GetReferredSchema(schema)
        none == [tag |-> <<>>, found |-> FALSE]
    IN  IF r.err THEN none
        ELSE IF r.found
        THEN GetSchemaRootType(ReferredSchema(schema),
                               IF parentTag = <<>> THEN Tag(r.name, "", "") ELSE parentTag)
        ELSE IF schema.Enum # <<>> THEN none
        ELSE IF schema.Type = <<>> THEN none
        ELSE IF TypeContains(schema, TYPE_ARRAY)
        THEN IF schema.Items = <<>> THEN none
             ELSE GetSchemaRootType(schema.Items[1], parentTag)
        ELSE IF TypeContains(schema, TYPE_OBJECT) THEN [tag |-> parentTag, found |-> TRUE]
        ELSE none

RECURSIVE AddObjectComparisons(_, _, _, _, _)
\* the loop over objarray from the i-th element on
AddObjectComparisons(comps, method, tag, objarray, i) ==
    IF i > Len(objarray) THEN comps
    ELSE AddObjectComparisons(
            IF objarray[i].kind = "map"
            THEN AddObjectComparison(comps, method, tag, objarray[i].map) ELSE comps,
            method, tag, objarray, i + 1)

\* the body of the loop of ResolveParameters for params
ResolveOne(tst, db, params) ==
    IF params.In = "body" /\ tst.other # <<>>
    THEN \* the body is no map: it is used as it is
         LET root == GetSchemaRootType(params.Schema[1], params.Tag)
             objarray == IF tst.other[1].kind = "array" THEN tst.other[1].arr ELSE <<>>
         IN  {ResolveResult(IF root.found /\ root.tag # <<>>
                            THEN AddObjectComparisons(tst.comparisons, tst.Method, root.tag,
                                                      objarray, 1)
                            ELSE tst.comparisons,
                            db, tst.other[1], "", NoBasic)}
    ELSE IF params.In = "body"
    THEN \* the body is nil or a map: generate, then lay the step's body over it
         LET schema == params.Schema[1]
             name == GetReferredSchema(schema).name
         IN  {IF r.err # "" THEN ResolveResult(tst.comparisons, db, Nil, r.err, NoBasic)
              ELSE LET obj == IF tst.body = <<>> THEN r.value.map
                              ELSE MapReplace(r.value.map, tst.body[1])
                   IN  ResolveResult(
                         AddObjectComparison(tst.comparisons, tst.Method,
                                             Tag(name, "", ""), obj),
                         db, MapV(obj), "", NoBasic)
                : r \in {x \in GenerateSchema(<<>>, schema) :
                            x.err # "" \/ x.value \in BodyDraws}}
    ELSE IF params.Name \in DOMAIN tst.params
    THEN LET v == tst.params[params.Name]
             r == AddBasicComparison(tst.comparisons, db, params.Tag, params, v)
         IN  {ResolveResult(r.comps, r.db, v, "",
                            BasicCall(tst.comparisons, params.Tag, params, v))}
    ELSE generateByTypeParam(tst.comparisons, db, params.Tag, params)

---------------------------------------------------------------------------
(* Test.ProcessResult *)

\* t.op.Responses of every operation: the response of a status code is
\* [Schema, Fail]; Fail says that its description carries <meqa fail>
StatusCodeResponses ==
    [s \in {200, 202} |->
        IF s = 200 THEN [Schema |-> <<RefSchema("Pet")>>, Fail |-> FALSE]
        ELSE [Schema |-> <<>>, Fail |-> TRUE]]
DefaultResponse == [Schema |-> <<ArraySchema(RefSchema("Pet"))>>, Fail |-> FALSE]

\* the response spec ProcessResult picks for a status
RespSpec(status) ==
    IF status \in DOMAIN StatusCodeResponses
    THEN [spec |-> StatusCodeResponses[status], useDefaultSpec |-> FALSE]
    ELSE [spec |-> DefaultResponse, useDefaultSpec |-> TRUE]

\* success by the status alone
SuccessNoTag(status, fail) == status >= 200 /\ status < 300

\* success based on return status, unless the response is tagged fail
Success(status, fail) == status >= 200 /\ status < 300 /\ ~fail

\* testSuccess after the look at t.Expect[ExpectStatus]
StatusPasses(expect, status, success) ==
    IF expect.kind = "fail" THEN ~success
    ELSE IF expect.kind = "int" THEN expect.num = status
    ELSE success

RECURSIVE ParsesArray(_, _, _)
\* Schema.Parses: [err, collection], collection the maps met under a schema
\* that a definition names, in the order met, up to the first mismatch
Parses(schema, obj) ==
    LET r == GetReferredSchema(schema) IN
    IF r.err THEN [err |-> TRUE, collection |-> <<>>]
    ELSE IF r.found
    THEN IF Matches(ReferredSchema(schema), obj)
         THEN [err |-> FALSE,
               collection |-> IF obj.kind = "map" THEN <<[class |-> r.name, obj |-> obj]>>
                              ELSE <<>>]
         ELSE [err |-> TRUE, collection |-> <<>>]
    ELSE IF TypeContains(schema, TYPE_ARRAY) /\ obj.kind = "array" /\ schema.Items # <<>>
    THEN ParsesArray(schema.Items[1], obj.arr, 1)
    ELSE [err |-> ~Matches(schema, obj), collection |-> <<>>]

ParsesArray(item, arr, i) ==
    IF i > Len(arr) THEN [err |-> FALSE, collection |-> <<>>]
    ELSE LET head == Parses(item, arr[i])
         IN  IF head.err THEN head
             ELSE LET rest == ParsesArray(item, arr, i + 1)
                  IN  [err |-> rest.err, collection |-> head.collection \o rest.collection]

\* collection[className]
ClassList(collection, class) ==
    LET RECURSIVE Pick(_)
        Pick(i) == IF i > Len(collection) THEN <<>>
                   ELSE (IF collection[i].class = class THEN <<collection[i].obj>> ELSE <<>>)
                        \o Pick(i + 1)
    IN  Pick(1)

\* the comparisons of a class after the loop that replaces what was posted
\* with what the server returned
PostReplace(list, classList) ==
    IF Len(list) > 0 /\ list[1].hasNew /\ Len(classList) > 0
    THEN [n \in DOMAIN classList |->
            [NoComp EXCEPT !.hasNew = TRUE, !.new = classList[n].map]]
    ELSE list

\* Test.ProcessOneComparison: [db, err, wrote]; wrote says a DB operation ran
ProcessOneComparison(db, className, method, comp) ==
    IF method = MethodDelete
    THEN {[db |-> DeleteIn(db, className, MapV(comp.oldUsed), "InterfaceEquals", -1).db,
           err |-> "", wrote |-> TRUE]}
    ELSE IF method = MethodPost /\ comp.hasNew
    THEN {[db |-> r.db, err |-> r.err, wrote |-> TRUE]
            : r \in InsertOutcomes(db, className, RefSchema(className), MapV(comp.new))}
    ELSE IF (method = MethodPatch \/ method = MethodPut) /\ comp.hasNew
    THEN {[db |-> UpdateIn(db, className, MapV(comp.oldUsed), "InterfaceEquals",
                           comp.new, 1, method = MethodPatch).db,
           err |-> "", wrote |-> TRUE]}
    ELSE {[db |-> db, err |-> "", wrote |-> FALSE]}

RECURSIVE ProcessComparisons(_, _, _, _, _)
\* the loop over a class's comparisons from the i-th on: [db, err]
ProcessComparisons(db, className, method, list, i) ==
    IF i > Len(list) THEN {[db |-> db, err |-> ""]}
    ELSE UNION {IF r.err # "" THEN {[db |-> r.db, err |-> r.err]}
                ELSE ProcessComparisons(r.db, className, method, list, i + 1)
                    : r \in ProcessOneComparison(db, className, method, list[i])}

\* Test.CompareGetResult: the error it returns, "" for nil
CompareGetResult(comps, db, strict, className, resultArray) ==
    LET list == comps[className]
        RECURSIVE Found(_)
        Found(i) == IF i > Len(list) THEN <<>>
                    ELSE FindIn(db, className, MapV(list[i].oldUsed), "InterfaceEquals", -1)
                         \o Found(i + 1)
        dbArray == IF Len(list) > 0 THEN Found(1)
                   ELSE FindIn(db, className, Nil, "InterfaceEquals", -1)
        compFound(entry) == \E j \in DOMAIN list :
                                InterfaceEquals(MapV(list[j].oldUsed), entry)
        found(entry) == \E j \in DOMAIN dbArray :
                            dbArray[j].kind = "map" /\ InterfaceEquals(dbArray[j], entry)
        bad(entry) == /\ entry.kind = "map"
                      /\ \/ Len(list) > 0 /\ ~compFound(entry)
                         \/ strict /\ ~found(entry)
    IN  IF \E n \in DOMAIN resultArray : bad(resultArray[n]) THEN "HTTP" ELSE ""

RECURSIVE InsertCollection(_, _, _, _, _)
\* the loop that adds everything from the collection to the DB; what Insert
\* returns is dropped.  [db, err, firstErr, late]: firstErr the first error an
\* Insert returned, late the Inserts called after it
InsertCollection(db, collection, i, firstErr, late) ==
    IF i > Len(collection)
    THEN {[db |-> db, err |-> "", firstErr |-> firstErr, late |-> late]}
    ELSE UNION {IF r.err = "panic"
                THEN {[db |-> r.db, err |-> "panic", firstErr |-> firstErr, late |-> late]}
                ELSE InsertCollection(r.db, collection, i + 1,
                                      IF firstErr = "" THEN r.err ELSE firstErr,
                                      IF firstErr = "" THEN late ELSE late + 1)
                    : r \in InsertOutcomes(db, collection[i].class,
                                           RefSchema(collection[i].class),
                                           collection[i].obj)}

\* what ProcessResult leaves: [db, comps, err, expect, track]
Outcome(db, comps, err, expect, stage, firstErr, late) ==
    [db |-> db, comps |-> comps, err |-> err, expect |-> expect,
     track |-> [stage |-> stage, firstErr |-> firstErr, late |-> late]]

\* the collection as it was, the classes of the set still in it
WithoutNone(collection, classes) == collection

\* collection without the classes of the set
Without(collection, classes) ==
    LET RECURSIVE Keep(_)
        Keep(i) == IF i > Len(collection) THEN <<>>
                   ELSE (IF collection[i].class \in classes THEN <<>> ELSE <<collection[i]>>)
                        \o Keep(i + 1)
    IN  Keep(1)

RECURSIVE ProcessClasses(_, _, _, _)
\* the loop over t.comparisons, in any order of the classes left: [db, err]
ProcessClasses(db, method, comps, classes) ==
    IF classes = {} THEN {[db |-> db, err |-> ""]}
    ELSE UNION {UNION {IF r.err # "" THEN {r}
                       ELSE ProcessClasses(r.db, method, comps, classes \ {c})
                          : r \in ProcessComparisons(db, c, method, comps[c], 1)}
                : c \in classes}

\* Test.ProcessResult(resp)
ProcessResult(tst, db, status, resultObj) ==
    LET rs == RespSpec(status)
        respSchema == rs.spec.Schema
        success == Success(status, rs.spec.Fail)
        expectSet == tst.Expect.kind # "none"
        statusOk == IF expectSet THEN StatusPasses(tst.Expect, status, success) ELSE success
        bodyOk == ~expectSet \/ InterfaceEquals(tst.Expect.body, resultObj)
        parse == IF resultObj.kind # "nil" /\ respSchema # <<>>
                 THEN Parses(respSchema[1], resultObj)
                 ELSE [err |-> FALSE, collection |-> <<>>]
        method == tst.Method
        replaced == IF method # MethodPost THEN {}
                    ELSE {c \in DOMAIN tst.comparisons :
                            /\ Len(ClassList(parse.collection, c)) > 0
                            /\ Len(tst.comparisons[c]) > 0
                            /\ tst.comparisons[c][1].hasNew}
        comps == [c \in DOMAIN tst.comparisons |->
                    IF c \in replaced
                    THEN PostReplace(tst.comparisons[c], ClassList(parse.collection, c))
                    ELSE tst.comparisons[c]]
        collection == Without(parse.collection, replaced)
        classes == {collection[n].class : n \in DOMAIN collection}
        getErr == IF \E c \in classes :
                        CompareGetResult(comps, db, tst.Strict, c,
                                         ClassList(collection, c)) # ""
                  THEN "HTTP" ELSE ""
        reconciled == IF method = MethodGet THEN {[db |-> db, err |-> getErr]}
                      ELSE ProcessClasses(db, method, comps,
                                          {c \in DOMAIN comps : Len(comps[c]) > 0})
        newExpect == [kind |-> "int", num |-> status, body |-> resultObj]
    IN  IF statusOk /\ ~bodyOk
        THEN {Outcome(db, tst.comparisons, "EXPECT", tst.Expect, "body", "EXPECT", 0)}
        ELSE IF ~statusOk
        THEN {Outcome(db, tst.comparisons, "EXPECT", tst.Expect, "status", "EXPECT", 0)}
        ELSE IF parse.err /\ ~(rs.useDefaultSpec /\ success)
        THEN {Outcome(db, tst.comparisons, "MISMATCH", tst.Expect, "parse", "MISMATCH", 0)}
        ELSE UNION {
            IF r.err # ""
            THEN {Outcome(r.db, comps, r.err, tst.Expect, "reconcile", r.err, 0)}
            ELSE IF tst.Strict
            THEN {Outcome(r.db, comps, "", newExpect, "", "", 0)}
            ELSE {IF x.err = "panic"
                  THEN Outcome(x.db, comps, "panic", tst.Expect, "collection",
                               x.firstErr, x.late)
                  ELSE Outcome(x.db, comps, "", newExpect, "", x.firstErr, x.late)
                    : x \in InsertCollection(r.db, collection, 1, "", 0)}
            : r \in reconciled}

---------------------------------------------------------------------------
(* Back-references to the history: a string is known by its number; Text   *)
(* gives it as the pieces strings.Index and strings.Split tell apart       *)

RefB == StrV(20)
RefA == StrV(21)
RefUnknownField == StrV(22)
RefUnknownStep == StrV(23)
RefNoField == StrV(24)
RefInText == StrV(25)
Text(id) ==
    CASE id = 20 -> <<"<", "S1", ".", "b", ">">>
      [] id = 21 -> <<"<", "S1", ".", "a", ">">>
      [] id = 22 -> <<"<", "S1", ".", "zz", ">">>
      [] id = 23 -> <<"<", "S9", ".", "b", ">">>
      [] id = 24 -> <<"<", "S1", ">">>
      [] id = 25 -> <<"pets", "<", "S1", ".", "b", ">", "x">>
      [] OTHER -> <<"text">>

\* strings.Index(str, piece)
Index(str, piece) ==
    IF \E i \in DOMAIN str : str[i] = piece
    THEN (CHOOSE i \in DOMAIN str : str[i] = piece /\ \A j \in 1..(i - 1) : str[j] # piece) - 1
    ELSE -1

\* strings.Split(str, "."): the parts between the dots
Split(str) ==
    LET RECURSIVE Parts(_, _)
        Parts(i, part) ==
            IF i > Len(str) THEN <<part>>
            ELSE IF str[i] = "." THEN <<part>> \o Parts(i + 1, <<>>)
            ELSE Parts(i + 1, Append(part, str[i]))
    IN  Parts(1, <<>>)

\* TestHistory.GetTest(name): <<>> is nil
GetTest(h, name) ==
    IF Len(name) = 1 /\ name[1] \in DOMAIN h THEN h[name[1]] ELSE <<>>

\* what one comparison gives for the name, nil when neither map has it
ParamOfComparison(comp, name, where) ==
    LET key == IF Len(name) = 1 THEN name[1] ELSE ""
        new == MapGet(comp.new, key)
        old == MapGet(comp.old, key)
    IN  IF new # Nil /\ where \in {"any", "new"} THEN new
        ELSE IF old # Nil /\ where \in {"any", "old"} THEN old
        ELSE Nil

\* Test.GetParamFromComparison: the values it can return; the range over the
\* map t.comparisons visits the classes in any order, each list in its order
GetParamFromComparison(t, name, where) ==
    LET First(list) ==
            IF \E j \in DOMAIN list : ParamOfComparison(list[j], name, where) # Nil
            THEN ParamOfComparison(
                    list[CHOOSE j \in DOMAIN list :
                            /\ ParamOfComparison(list[j], name, where) # Nil
                            /\ \A k \in 1..(j - 1) :
                                    ParamOfComparison(list[k], name, where) = Nil],
                    name, where)
            ELSE Nil
        found == {First(t.comparisons[c]) : c \in DOMAIN t.comparisons} \ {Nil}
    IN  IF found = {} THEN {Nil} ELSE found

\* StringParamsResolveWithHistory: the values it can return
StringParamsResolveWithHistory(str, h) ==
    LET begin == Index(str, "<")
        end == Index(str, ">")
    IN  IF end > begin
        THEN LET ar == Split(SubSeq(str, begin + 2, end))
             IN  IF Len(ar) # 2 THEN {Nil}
                 ELSE IF GetTest(h, ar[1]) # <<>>
                 THEN GetParamFromComparison(GetTest(h, ar[1])[1], ar[2], "any")
                 ELSE {Nil}
        ELSE {Nil}

\* what a value of a map or of an array can be after the call: a string is
\* replaced when the result is not nil
ResolveString(v, h) ==
    IF v.kind = "string"
    THEN {IF r = Nil THEN v ELSE r : r \in StringParamsResolveWithHistory(Text(v.val), h)}
    ELSE {v}

\* MapParamsResolveWithHistory: the maps paramMap can be afterwards
MapParamsResolveWithHistory(paramMap, h) ==
    {f \in [DOMAIN paramMap -> UNION {ResolveString(paramMap[k], h) : k \in DOMAIN paramMap}] :
        \A k \in DOMAIN paramMap : f[k] \in ResolveString(paramMap[k], h)}

\* ArrayParamsResolveWithHistory: the arrays paramArray can be afterwards
ArrayParamsResolveWithHistory(paramArray, h) ==
    LET each(v) == IF v.kind = "map"
                   THEN {MapV(f) : f \in MapParamsResolveWithHistory(v.map, h)}
                   ELSE ResolveString(v, h)
    IN  {ar \in [DOMAIN paramArray -> UNION {each(paramArray[i]) : i \in DOMAIN paramArray}] :
            \A i \in DOMAIN paramArray : ar[i] \in each(paramArray[i])}

\* t.BodyParams: <<>> is nil
BodyParams(body, other) == IF body # <<>> THEN <<MapV(body[1])>> ELSE other

\* Test.ResolveHistoryParameters on the parameter bags (one map here) and the
\* body: what the step can hold afterwards, [params, body, other]
ResolveHistoryParameters(params, body, other, h) ==
    LET bodies ==
            IF body # <<>>
            THEN {[body |-> <<m>>, other |-> <<>>] : m \in MapParamsResolveWithHistory(body[1], h)}
            ELSE IF other = <<>> THEN {[body |-> <<>>, other |-> <<>>]}
            ELSE IF other[1].kind = "array"
            THEN {[body |-> <<>>, other |-> <<ArrV(ar)>>]
                    : ar \in ArrayParamsResolveWithHistory(other[1].arr, h)}
            ELSE IF other[1].kind = "string"
            THEN {IF r = Nil THEN [body |-> <<>>, other |-> other]
                  ELSE IF r.kind = "map" THEN [body |-> <<r.map>>, other |-> <<>>]
                  ELSE [body |-> <<>>, other |-> <<r>>]
                    : r \in StringParamsResolveWithHistory(Text(other[1].val), h)}
            ELSE {[body |-> <<>>, other |-> other]}
    IN  {[params |-> p, body |-> b.body, other |-> b.other]
            : p \in MapParamsResolveWithHistory(params, h), b \in bodies}

---------------------------------------------------------------------------
(* Test.Run: a step of a plan, from Duplicate to the return of Run *)

\* objects the DB holds at most while steps run
MaxStepObjects == 2

\* a step of the plan: operation, strict, expect, parameters given, body given
Step(o, strict, kind, num, body, given, b) ==
    [op |-> o, Strict |-> strict, Expect |-> [kind |-> kind, num |-> num, body |-> body],
     params |-> given, body |-> b, name |-> "", other |-> <<>>]
A1 == MapV([a |-> IntV(1)])
\* the steps of the plans run
Steps ==
    {Step("postPet", FALSE, "none", 0, Nil, EmptyMap, <<>>),
     Step("postPet", TRUE, "int", 200, A12, EmptyMap, <<[b |-> IntV(2)]>>),
     Step("getPets", TRUE, "none", 0, Nil, EmptyMap, <<>>),
     Step("listPets", TRUE, "none", 0, Nil, [limit |-> IntV(1)], <<>>),
     Step("listPets", FALSE, "int", 200, A12, EmptyMap, <<>>),
     Step("getPet", TRUE, "none", 0, Nil, EmptyMap, <<>>),
     Step("getPets", FALSE, "none", 0, Nil, [d |-> IntV(1)], <<>>),
     Step("getPets", TRUE, "none", 0, Nil, [d |-> IntV(1)], <<>>),
     Step("getPets", TRUE, "fail", 0, Nil, [a |-> IntV(1)], <<>>),
     Step("getBulk", FALSE, "none", 0, Nil, [a1 |-> IntV(0), a2 |-> IntV(1)], <<>>),
     Step("patchPet", FALSE, "none", 0, Nil, EmptyMap, <<[b |-> IntV(2)]>>),
     Step("putPet", TRUE, "none", 0, Nil, [a |-> IntV(1)], <<>>),
     Step("deletePet", FALSE, "none", 0, Nil, EmptyMap, <<>>),
     Step("deletePet", TRUE, "int", 404, Nil, [a |-> IntV(0)], <<>>),
     Step("deletePet", FALSE, "fail", 0, Nil, EmptyMap, <<>>),
     Step("postPet", TRUE, "fail", 0, Nil, EmptyMap, <<>>),
     Step("missing", FALSE, "none", 0, Nil, EmptyMap, <<>>),
     Step("tracePets", FALSE, "none", 0, Nil, EmptyMap, <<>>)}
\* what the server answers: (status, decoded body)
Responses ==
    {<<200, A1>>, <<200, A12>>, <<200, Wrong>>, <<200, Nil>>,
     <<201, ArrV(<<A1, A12>>)>>, <<201, A12>>, <<202, Nil>>, <<404, Nil>>}

\* the methods GetOperationByMethod and the switch of Run know
MethodHead == "head"
MethodOptions == "options"
Methods == {MethodGet, MethodPost, MethodPut, MethodDelete, MethodPatch,
            MethodHead, MethodOptions}
\* the steps that name no operation of the swagger, by path and method: the
\* path of `missing` is not in Paths, `tracePets` has a path of the swagger
\* and a method that is none of Methods
NoOperation == [missing |-> [InPaths |-> FALSE, Method |-> MethodGet],
                tracePets |-> [InPaths |-> TRUE, Method |-> "trace"]]
\* the t.Method of a step
StepMethod(o) == IF o \in DOMAIN SwaggerOps THEN SwaggerOps[o].Method
                 ELSE NoOperation[o].Method
\* GetOperationByMethod(&pathItem, t.Method): <<>> is nil, which the switch
\* returns for a method it does not know and the zero PathItem of a path
\* that is not in Paths holds for every method
GetOperationByMethod(o) ==
    IF o \in DOMAIN SwaggerOps /\ StepMethod(o) \in Methods THEN <<SwaggerOps[o]>> ELSE <<>>

\* Run starts on a duplicate of a step of the plan; ResolveParameters looks
\* the operation up
StartRunOf(steps) ==
    /\ ~aborted /\ test.pc = "idle"
    /\ \E st \in steps :
       \E hr \in ResolveHistoryParameters(st.params, st.body, st.other, history) :
        LET t0 == [NoTest EXCEPT !.op = st.op, !.name = st.name,
                                 !.Method = StepMethod(st.op),
                                 !.Strict = st.Strict, !.Expect = st.Expect,
                                 !.expect0 = st.Expect,
                                 !.given = [params |-> st.params, body |-> st.body,
                                            other |-> st.other],
                                 !.afterHistory = hr,
                                 !.params = hr.params, !.body = hr.body,
                                 !.other = hr.other, !.dbStart = schemas]
        IN  IF GetOperationByMethod(st.op) = <<>>
            THEN test' = [t0 EXCEPT !.pc = "done", !.err = "NOT_FOUND"]
            ELSE test' = [t0 EXCEPT !.pc = "resolve", !.i = 1]
    /\ UNCHANGED <<schemas, aborted, op, args, ret, pre, prev, inserted, gen, mu, history>>

\* a step of the plans that name no step
StartRun == StartRunOf(Steps)

\* one turn of the loop over t.op.Parameters
ResolveParameter ==
    /\ ~aborted /\ test.pc = "resolve"
    /\ LET ps == SwaggerOps[test.op].Parameters
           param == ps[test.i]
       IN  \E r \in ResolveOne(test, schemas, param) :
            /\ schemas' = r.db
            /\ aborted' = (r.err = "panic")
            /\ test' = [test EXCEPT
                    !.comparisons = r.comps,
                    !.basic = r.basic,
                    !.resolved =
                        IF param.In = "body" \/ param.Tag = <<>> \/ r.err # "" THEN NoResolved
                        ELSE [set |-> TRUE, class |-> param.Tag[1].Class,
                              property |-> param.Tag[1].Property,
                              given |-> param.Name \in DOMAIN test.params,
                              value |-> r.value,
                              before |-> test.comparisons[param.Tag[1].Class],
                              db |-> schemas],
                    !.params = IF param.In = "body" \/ r.err # "" THEN @
                               ELSE MapSet(@, param.Name, r.value),
                    !.body = IF param.In = "body" /\ r.err = "" /\ test.other = <<>>
                             THEN <<r.value.map>> ELSE @,
                    !.err = IF r.err = "panic" THEN "" ELSE r.err,
                    !.i = @ + 1,
                    !.pc = IF r.err # "" THEN "done"
                           ELSE IF test.i = Len(ps) THEN "request" ELSE "resolve"]
    /\ UNCHANGED <<op, args, ret, pre, prev, inserted, gen, mu, history>>

\* the round trip ends in a transport error
HttpError ==
    /\ ~aborted /\ test.pc = "request"
    /\ test' = [test EXCEPT !.pc = "done", !.err = "HTTP", !.basic = NoBasic,
                            !.resolved = NoResolved,
                            !.sent = [db |-> schemas, comps |-> test.comparisons]]
    /\ UNCHANGED <<schemas, aborted, op, args, ret, pre, prev, inserted, gen, mu, history>>

\* the server answers and Run returns what ProcessResult returns
HttpResponse ==
    /\ ~aborted /\ test.pc = "request"
    /\ \E resp \in Responses :
       \E r \in ProcessResult(test, schemas, resp[1], resp[2]) :
            /\ TotalObjects(r.db) <= MaxStepObjects
            /\ schemas' = r.db
            /\ aborted' = (r.err = "panic")
            /\ test' = [test EXCEPT !.pc = "done", !.entered = TRUE,
                                    !.resp = [status |-> resp[1], body |-> resp[2]],
                                    !.comparisons = r.comps,
                                    !.Expect = r.expect,
                                    !.err = IF r.err = "panic" THEN "" ELSE r.err,
                                    !.track = r.track,
                                    !.basic = NoBasic,
                                    !.resolved = NoResolved,
                                    !.sent = [db |-> schemas, comps |-> test.comparisons]]
    /\ UNCHANGED <<op, args, ret, pre, prev, inserted, gen, mu, history>>

\* the plan goes on to its next step
NextStep ==
    /\ ~aborted /\ test.pc = "done"
    /\ test' = NoTest
    /\ history' = IF test.name \in RefNames
                  THEN [history EXCEPT ![test.name] =
                            <<[Method |-> test.Method, comparisons |-> test.comparisons,
                               resp |-> test.resp, err |-> test.err,
                               entered |-> test.entered,
                               \* the step as the plan gave it and the DB it left
                               op |-> test.op, Strict |-> test.Strict,
                               expect0 |-> test.expect0, given |-> test.given,
                               db |-> schemas]>>]
                  ELSE history
    /\ UNCHANGED <<schemas, aborted, op, args, ret, pre, prev, inserted, gen, mu>>

StepNext == StartRun \/ ResolveParameter \/ HttpError \/ HttpResponse \/ NextStep

SpecStep == Init /\ [][StepNext]_vars

---------------------------------------------------------------------------
(* Properties of a step, read off the Test when Run has returned *)

SameLists(db1, db2) ==
    \A n \in DOMAIN db1 \cup DOMAIN db2 : ObjectsOf(db1, n) = ObjectsOf(db2, n)
\* Run has returned from ProcessResult
Processed == test.pc = "done" /\ test.entered /\ ~aborted
\* the expectation and the parse of the body let the step through
Validated == Processed /\ test.track.stage \notin {"status", "body", "parse"}

\* C13: after a transport error Run returns an HTTP error without entering
\* ProcessResult and the DB's object lists are what they were when the step
\* started.
C13_TransportErrorLeavesDB ==
    (test.pc = "done" /\ test.err = "HTTP" /\ ~test.entered) =>
        SameLists(schemas, test.dbStart)

\* C14: the error Run returns is the first error that arose in ProcessResult,
\* and no Insert, Update or Delete is called once an error has arisen.
C14_FirstErrorStops ==
    Processed => (test.err = test.track.firstErr /\ test.track.late = 0)

\* the call was a success: 2xx and the matched response not tagged fail
CallSucceeded ==
    /\ test.resp.status >= 200 /\ test.resp.status < 300
    /\ ~RespSpec(test.resp.status).spec.Fail
StatusPassed == test.track.stage # "status"

\* C15: with expect.status "fail" the status check passes iff the call failed,
\* with an integer iff it equals the HTTP status; a step that does not pass
\* returns EXPECT and reconciles nothing.
C15_StatusExpectation ==
    Processed =>
        /\ test.expect0.kind = "fail" => (StatusPassed <=> ~CallSucceeded)
        /\ test.expect0.kind = "int" =>
                (StatusPassed <=> test.expect0.num = test.resp.status)
        /\ ~StatusPassed =>
                /\ test.err = "EXPECT"
                /\ SameLists(schemas, test.sent.db)
                /\ test.comparisons = test.sent.comps
C15_Witness ==
    /\ Processed /\ test.expect0.kind = "fail" /\ StatusPassed
    /\ test.resp.status = 202 /\ test.err = ""

\* the maps the response holds for a class
ServerObjects(class) ==
    LET respSchema == RespSpec(test.resp.status).spec.Schema
    IN  IF test.resp.body.kind = "nil" \/ respSchema = <<>> THEN <<>>
        ELSE ClassList(Parses(respSchema[1], test.resp.body).collection, class)

\* C16: after a POST step with a `new` comparison of class C whose validated
\* response holds objects of class C, the comparisons of C are one per
\* returned object, with it as `new`, and the DB list of C holds every
\* returned object.
C16_PostUsesServerObjects ==
    \A c \in DOMAIN Definitions :
        (/\ Validated /\ test.Method = MethodPost
         /\ Len(test.sent.comps[c]) > 0 /\ test.sent.comps[c][1].hasNew
         /\ Len(ServerObjects(c)) > 0) =>
            /\ Len(test.comparisons[c]) = Len(ServerObjects(c))
            /\ \A n \in DOMAIN ServerObjects(c) :
                /\ test.comparisons[c][n].hasNew
                /\ test.comparisons[c][n].new = ServerObjects(c)[n].map
                /\ ServerObjects(c)[n] \in Elems(ObjectsOf(schemas, c))

\* the comparison a PATCH or PUT step went out with, and the entity it names
Sole(c) == test.sent.comps[c][1]
Targets(c) ==
    {i \in DOMAIN ObjectsOf(test.sent.db, c) :
        /\ ObjectsOf(test.sent.db, c)[i].kind = "map"
        /\ InterfaceEquals(MapV(Sole(c).oldUsed), ObjectsOf(test.sent.db, c)[i])}
Updated(c, i) ==
    IF test.Method = MethodPatch
    THEN MapV(MapCombine(ObjectsOf(test.sent.db, c)[i].map, Sole(c).new))
    ELSE MapV(Sole(c).new)

\* C17: after a PATCH or PUT step whose oldUsed names an entity of the DB, the
\* entity is still stored, merged (PATCH) or replaced (PUT); when no entity
\* matches the step succeeds all the same.
C17_UpdateKeepsEntity ==
    \A c \in DOMAIN Definitions :
        (/\ Validated /\ test.Method \in {MethodPatch, MethodPut}
         /\ Len(test.sent.comps[c]) = 1 /\ Sole(c).hasNew) =>
            /\ test.err = ""
            /\ Targets(c) # {} =>
                \E i \in Targets(c) : Updated(c, i) \in Elems(ObjectsOf(schemas, c))

\* C18: a GET step returns an HTTP error iff some returned map (i) matches the
\* oldUsed of none of the class's comparisons, there being some, or (ii), the
\* step being strict, equals no entity the DB holds for the class.
C18_GetComparison ==
    (Validated /\ test.Method = MethodGet) =>
        LET violated(c, e) ==
                \/ /\ Len(test.sent.comps[c]) > 0
                   /\ \A n \in DOMAIN test.sent.comps[c] :
                        ~InterfaceEquals(MapV(test.sent.comps[c][n].oldUsed), e)
                \/ /\ test.Strict
                   /\ \A o \in Elems(ObjectsOf(test.sent.db, c)) : ~InterfaceEquals(o, e)
            some == \E c \in DOMAIN Definitions :
                        \E n \in DOMAIN ServerObjects(c) : violated(c, ServerObjects(c)[n])
        IN  IF some THEN test.err = "HTTP" ELSE test.err = ""

\* the map of a comparison AddBasicComparison selects for an operation
Selected(comp, o) ==
    IF o = MethodGet THEN (IF comp.hasOld THEN comp.old ELSE EmptyMap)
    ELSE (IF comp.hasNew THEN comp.new ELSE EmptyMap)

\* C19: when AddBasicComparison adds a value for class.property and the last
\* comparison of the class has the property set in the selected map, a fresh
\* comparison holding the value is appended and those there stay as they
\* were.
C19_CollisionAppends ==
    LET b == test.basic
        after == test.comparisons[b.class]
    IN  (/\ b.called /\ Len(b.before) > 0
         /\ b.property \in DOMAIN Selected(b.before[Len(b.before)], b.o)) =>
            /\ Len(after) = Len(b.before) + 1
            /\ SubSeq(after, 1, Len(b.before)) = b.before
            /\ b.property \in DOMAIN Selected(after[Len(after)], b.o)
            /\ Selected(after[Len(after)], b.o)[b.property] = b.data

\* C20: in every comparison of the step oldUsed is part of old: each key of
\* oldUsed is a key of old with the same value.
C20_OldUsedWithinOld ==
    \A c \in DOMAIN test.comparisons :
        \A n \in DOMAIN test.comparisons[c] :
            LET comp == test.comparisons[c][n]
            IN  \A k \in DOMAIN comp.oldUsed :
                    k \in DOMAIN comp.old /\ comp.old[k] = comp.oldUsed[k]

---------------------------------------------------------------------------
(* DB.Init and the size of the lists *)

\* C27: right after Init the DB holds one SchemaDB per definition of the
\* swagger, each with an empty list, and GetSchema(N) is the schema of the
\* definition N itself.
C27_InitOwnSchemas ==
    op = "Init" =>
        /\ DOMAIN schemas = DOMAIN Definitions
        /\ \A n \in DOMAIN Definitions :
              /\ schemas[n].Objects = <<>>
              /\ GetSchema(schemas, n) = <<Definitions[n]>>

\* C30: Update leaves as many objects under the name as there were, keeps
\* every object that did not match, and touches no other list.
C30_UpdateKeepsCount ==
    op = "Update" =>
        /\ Len(After) = Len(Before)
        /\ \A o \in Elems(Before) : ~Hit(o) => Occ(After, o) >= Occ(Before, o)
        /\ OthersUntouched

---------------------------------------------------------------------------
(* generateFloat and generateInt.  A float64 is counted in hundredths (the  *)
(* shift of an exclusive bound is one hundredth); an int64 is an integer of *)
(* IntBits bits.                                                            *)

\* bits of an int64 in the model
IntBits == 16
MaxInt64 == 2^(IntBits - 1) - 1
MinInt64 == -(2^(IntBits - 1))
\* 1.0 in hundredths
One == 100

Abs(x) == IF x < 0 THEN -x ELSE x

\* [realmin, realmax) as generateFloat ends with; the branch that returns the
\* error comes after `else if s.Minimum != nil` and `else if s.Maximum != nil`
FloatRange(s) ==
    LET realmin == IF s.Minimum # <<>>
                   THEN s.Minimum[1] + (IF s.ExclusiveMinimum THEN 1 ELSE 0) ELSE 0
        realmax == IF s.Maximum # <<>>
                   THEN s.Maximum[1] - (IF s.ExclusiveMaximum THEN 1 ELSE 0) ELSE 0
    IN  IF realmin >= realmax
        THEN IF s.Minimum = <<>> /\ s.Maximum = <<>>
             THEN [realmin |-> -One, realmax |-> One, err |-> ""]
             ELSE IF s.Minimum # <<>>
             THEN [realmin |-> realmin, realmax |-> realmin + Abs(realmin), err |-> ""]
             ELSE IF s.Maximum # <<>>
             THEN [realmin |-> realmax - Abs(realmax), realmax |-> realmax, err |-> ""]
             ELSE [realmin |-> 0, realmax |-> 0, err |-> "INVALID"]
        ELSE [realmin |-> realmin, realmax |-> realmax, err |-> ""]

\* rand.Float64()*(realmax-realmin) + realmin for the draws 0, 1/2 and the
\* largest below 1
Floats(realmin, realmax) ==
    IF realmax <= realmin THEN {realmin}
    ELSE {realmin, realmin + (realmax - realmin) \div 2, realmax - 1}

generateFloat(s) ==
    LET r == FloatRange(s)
    IN  IF r.err # "" THEN {GenError(r.err)}
        ELSE {GenValue(FloatV(f)) : f \in Floats(r.realmin, r.realmax)}

\* int64(f): the fraction is dropped; a value no int64 holds converts to a
\* value that depends on the machine (the smallest int64 on amd64, the
\* nearest int64 on arm64)
ToInt64(f) ==
    LET i == IF f >= 0 THEN f \div One ELSE -((-f) \div One)
    IN  IF i > MaxInt64 THEN {MinInt64, MaxInt64}
        ELSE IF i < MinInt64 THEN {MinInt64}
        ELSE {i}

\* i++ of an int64
Incr(i) == IF i = MaxInt64 THEN MinInt64 ELSE i + 1

generateInt(s) ==
    LET s1 == WithDefaultMaximum(s)
        res == generateFloat(s1)
        \* int64(*s.Minimum)
        mins == IF s1.Minimum # <<>> THEN ToInt64(s1.Minimum[1]) ELSE {0}
    IN  Errors(res)
        \cup UNION {{GenValue(IntV(IF s1.Minimum # <<>> /\ i <= m THEN Incr(i) ELSE i))
                        : i \in ToInt64(v.val), m \in mins}
                    : v \in OkValues(res)}

\* a minimum whose double no int64 holds
BigMinimum == (MaxInt64 \div 2 + 2) * One
\* (bound, exclusive)
Minimums == {<<<<>>, FALSE>>}
            \cup {<<<<m>>, e>> : m \in {-550, -500, 0, 500, 550, BigMinimum}, e \in BOOLEAN}
Maximums == {<<<<>>, FALSE>>} \cup {<<<<m>>, e>> : m \in {300, 1000}, e \in BOOLEAN}
NumSchema(t, min, max) ==
    [TypeSchema(t) EXCEPT !.Minimum = min[1], !.ExclusiveMinimum = min[2],
                          !.Maximum = max[1], !.ExclusiveMaximum = max[2]]

\* generateByType reaches generateInt for a schema of type integer
GenerateInt ==
    /\ ~aborted
    /\ \E min \in Minimums, max \in Maximums :
         LET s == NumSchema(TYPE_INTEGER, min, max)
         IN  \E r \in generateInt(s) :
                gen' = [schema |-> s, value |-> r.value, err |-> r.err, called |-> TRUE,
                        after |-> WithDefaultMaximum(s)]
    /\ UNCHANGED <<schemas, aborted, op, args, ret, pre, prev, inserted, mu, test, history>>

\* generateByType reaches generateFloat for a schema of type number
GenerateFloat ==
    /\ ~aborted
    /\ \E min \in Minimums, max \in Maximums :
         LET s == NumSchema(TYPE_NUMBER, min, max)
         IN  \E r \in generateFloat(s) :
                gen' = [schema |-> s, value |-> r.value, err |-> r.err, called |-> TRUE,
                        after |-> s]
    /\ UNCHANGED <<schemas, aborted, op, args, ret, pre, prev, inserted, mu, test, history>>

NumNext == GenerateInt \/ GenerateFloat

SpecNum == Init /\ [][NumNext]_vars

\* C23: no call of the generator writes to the schema of the Swagger document
\* it was handed: the schema is after the call what it was before.
C23_SwaggerReadOnly ==
    gen.called => gen.after = gen.schema

\* C25: for an integer schema with minimum m and exclusiveMinimum, with or
\* without a maximum, generateInt returns a value strictly greater than m.
C25_ExclusiveMinimum ==
    (/\ gen.called /\ gen.schema.Type = <<TYPE_INTEGER>>
     /\ gen.schema.Minimum # <<>> /\ gen.schema.ExclusiveMinimum) =>
        /\ gen.err = ""
        /\ gen.value.val * One > gen.schema.Minimum[1]

\* the bounds generateFloat works with when the schema gives both
EffectiveMinimum(s) == s.Minimum[1] + (IF s.ExclusiveMinimum THEN 1 ELSE 0)
EffectiveMaximum(s) == s.Maximum[1] - (IF s.ExclusiveMaximum THEN 1 ELSE 0)

\* C26: when the schema gives a minimum and a maximum and the effective
\* minimum is not below the effective maximum, the call returns INVALID.
C26_ConflictingBounds ==
    (/\ gen.called /\ gen.schema.Minimum # <<>> /\ gen.schema.Maximum # <<>>
     /\ EffectiveMinimum(gen.schema) >= EffectiveMaximum(gen.schema)) =>
        gen.err = "INVALID"

---------------------------------------------------------------------------
(* Error kinds of a step and the collection *)

\* a request of the step went out
Dispatched == test.sent.db # EmptyMap \/ test.entered

\* C24: a step whose method is none of get, post, put, delete, patch, head,
\* options returns INVALID, a step whose path is not in the swagger returns
\* NOT_FOUND; neither sends a request nor changes the DB.
C24_ErrorKinds ==
    (test.pc = "done" /\ test.op \in DOMAIN NoOperation) =>
        /\ test.Method \notin Methods => test.err = "INVALID"
        /\ ~NoOperation[test.op].InPaths => test.err = "NOT_FOUND"
        /\ ~Dispatched
        /\ SameLists(schemas, test.dbStart)

\* POST replacement took the objects of the class out of the collection
Consumed(c) ==
    /\ test.Method = MethodPost
    /\ Len(test.sent.comps[c]) > 0 /\ test.sent.comps[c][1].hasNew

\* C28: a step that is not strict and returns no error has inserted every
\* collected object that POST replacement left in the collection; a strict
\* GET step leaves the DB's object lists as they were.
C28_CollectionByStrictness ==
    /\ (Processed /\ test.err = "" /\ ~test.Strict) =>
            \A c \in DOMAIN Definitions :
                ~Consumed(c) =>
                    \A n \in DOMAIN ServerObjects(c) :
                        ServerObjects(c)[n] \in Elems(ObjectsOf(schemas, c))
    /\ (Processed /\ test.Strict /\ test.Method = MethodGet) =>
            SameLists(schemas, test.dbStart)

\* the resolver has just generated the value of a parameter tagged
\* class.property while the step had no comparison of the class with an old
\* and the DB held an entity of the class
ReuseCase ==
    LET rv == test.resolved
    IN  /\ rv.set /\ ~rv.given /\ rv.property # ""
        /\ \A j \in DOMAIN rv.before : ~rv.before[j].hasOld
        /\ Len(ObjectsOf(rv.db, rv.class)) >= 1

\* C29: in that case the value is e[p] of an entity e stored under the
\* class, a comparison with old = e and oldUsed = {p: e[p]} is appended to
\* the step's list of the class, and the DB is as it was.
C29_ReuseFromDB ==
    LET rv == test.resolved
        stored == ObjectsOf(rv.db, rv.class)
        after == test.comparisons[rv.class]
    IN  ReuseCase =>
            /\ \E n \in DOMAIN stored :
                /\ stored[n].kind = "map"
                /\ rv.value = MapGet(stored[n].map, rv.property)
                /\ Len(after) = Len(rv.before) + 1
                /\ SubSeq(after, 1, Len(rv.before)) = rv.before
                /\ after[Len(after)].hasOld /\ after[Len(after)].old = stored[n].map
                /\ after[Len(after)].oldUsed = MapSet(EmptyMap, rv.property, rv.value)
                /\ ~after[Len(after)].hasNew
            /\ SameLists(schemas, rv.db)

\* a value taken from the second of two stored entities
C29_Witness ==
    /\ ReuseCase
    /\ Len(ObjectsOf(test.resolved.db, test.resolved.class)) = 2
    /\ test.comparisons[test.resolved.class][1].old
            = ObjectsOf(schemas, test.resolved.class)[2].map
    /\ test.resolved.value.kind = "int"

---------------------------------------------------------------------------
(* Plans whose steps refer to the step S1 *)

Named(st, name) == [st EXCEPT !.name = name]
NoMapBody(st, v) == [st EXCEPT !.other = <<v>>]
\* the steps of these plans: S1 posts a pet; the others refer to it in their
\* parameters and bodies
PlanSteps ==
    {Named(Step("postPet", FALSE, "none", 0, Nil, EmptyMap, <<>>), "S1"),
     Named(Step("postPetOf", FALSE, "none", 0, Nil, [o |-> IntV(0)], <<>>), "S1"),
     Step("getPet", FALSE, "none", 0, Nil, [a |-> RefA], <<>>),
     Step("getPets", FALSE, "none", 0, Nil, [a |-> RefB, d |-> RefUnknownField], <<>>),
     Step("getPets", FALSE, "none", 0, Nil, [a |-> RefUnknownStep, d |-> RefNoField], <<>>),
     Step("getPet", FALSE, "none", 0, Nil, [a |-> RefInText], <<>>),
     Step("postPet", FALSE, "none", 0, Nil, EmptyMap,
          <<[b |-> RefB, o |-> MapV([b |-> RefB]), l |-> ArrV(<<RefB>>)]>>),
     NoMapBody(Step("postPet", FALSE, "none", 0, Nil, EmptyMap, <<>>),
               ArrV(<<RefB, MapV([b |-> RefB, o |-> MapV([b |-> RefB])]), ArrV(<<RefB>>)>>)),
     NoMapBody(Step("postPet", FALSE, "none", 0, Nil, EmptyMap, <<>>), RefA)}

\* a step of the plans that refer to S1
StartPlanRun == StartRunOf(PlanSteps)

PlanNext == StartPlanRun \/ ResolveParameter \/ HttpError \/ HttpResponse \/ NextStep

SpecPlan == Init /\ [][PlanNext]_vars

\* the step S1 of the history is a POST that was reconciled without error
\* and whose response is a map with the field
Reconciled(field) ==
    /\ history["S1"] # <<>>
    /\ history["S1"][1].Method = MethodPost
    /\ history["S1"][1].entered /\ history["S1"][1].err = ""
    /\ history["S1"][1].resp.body.kind = "map"
    /\ field \in DOMAIN history["S1"][1].resp.body.map
\* the field a string of the form <S1.field> names, "" for another string
FieldOf(v) ==
    IF v.kind = "string" /\ Len(Text(v.val)) = 5 /\ SubSeq(Text(v.val), 1, 3) = <<"<", "S1", ".">>
        /\ Text(v.val)[5] = ">"
    THEN Text(v.val)[4] ELSE ""

\* C21: once the POST step S1 is reconciled, a parameter that a later step
\* gives as <S1.field> holds the value of the field in S1's response from
\* the history resolution on, and still when the request goes out.
C21_BackReference ==
    \A k \in DOMAIN test.given.params :
        LET f == FieldOf(test.given.params[k])
        IN  (test.pc # "idle" /\ f # "" /\ Reconciled(f)) =>
                /\ test.afterHistory.params[k] = history["S1"][1].resp.body.map[f]
                /\ test.pc = "request" =>
                        test.params[k] = history["S1"][1].resp.body.map[f]

\* the values the comparisons of a test hold for a field in their new maps,
\* and in their old maps
InNew(t, f) ==
    UNION {{MapGet(t.comparisons[c][j].new, f) : j \in DOMAIN t.comparisons[c]}
            : c \in DOMAIN t.comparisons} \ {Nil}
InOld(t, f) ==
    UNION {{MapGet(t.comparisons[c][j].old, f) : j \in DOMAIN t.comparisons[c]}
            : c \in DOMAIN t.comparisons} \ {Nil}

\* what a back-reference stands for: the field in the new maps of the named
\* test, else in its old maps; the string itself when the step or the field
\* is unknown or the string is malformed
Referenced(v, h) ==
    LET str == Text(v.val)
        begin == Index(str, "<")
        end == Index(str, ">")
        ar == Split(SubSeq(str, begin + 2, end))
    IN  IF begin >= 0 /\ end > begin /\ Len(ar) = 2 /\ Len(ar[2]) = 1
            /\ GetTest(h, ar[1]) # <<>>
        THEN LET t == GetTest(h, ar[1])[1]
             IN  IF InNew(t, ar[2][1]) # {} THEN InNew(t, ar[2][1])
                 ELSE IF InOld(t, ar[2][1]) # {} THEN InOld(t, ar[2][1])
                 ELSE {v}
        ELSE {v}

RECURSIVE Wanted(_, _)
\* what a value may be once every back-reference in it, at every depth, is
\* replaced
Wanted(v, h) ==
    IF v.kind = "string" THEN Referenced(v, h)
    ELSE IF v.kind = "map"
    THEN {MapV(f) : f \in {g \in [DOMAIN v.map -> UNION {Wanted(v.map[k], h) : k \in DOMAIN v.map}] :
                                \A k \in DOMAIN v.map : g[k] \in Wanted(v.map[k], h)}}
    ELSE IF v.kind = "array"
    THEN {ArrV(f) : f \in {g \in [DOMAIN v.arr -> UNION {Wanted(v.arr[i], h) : i \in DOMAIN v.arr}] :
                                \A i \in DOMAIN v.arr : g[i] \in Wanted(v.arr[i], h)}}
    ELSE {v}

\* C22: ResolveHistoryParameters leaves every parameter and the body with
\* each back-reference, at every depth of maps and arrays, replaced by the
\* value it stands for (new before old), and with each reference that cannot
\* be resolved as it was.
C22_ResolveEveryDepth ==
    test.pc # "idle" =>
        /\ \A k \in DOMAIN test.given.params :
                test.afterHistory.params[k] \in Wanted(test.given.params[k], history)
        /\ LET before == BodyParams(test.given.body, test.given.other)
               after == BodyParams(test.afterHistory.body, test.afterHistory.other)
           IN  IF before = <<>> THEN after = <<>>
               ELSE after # <<>> /\ after[1] \in Wanted(before[1], history)

---------------------------------------------------------------------------
(* Steps whose call the server rejected, repeated reads, one entity a POST *)

\* the lists of the DB hold, each, what they held when the request went out
MirrorKept == SameLists(schemas, test.sent.db)

\* C31: a step whose HTTP call was a failure (status outside 200..299 or a
\* response tagged fail) never changes the DB, also when the step passes
\* because the failure was expected.
C31_FailedCallLeavesDB ==
    (Processed /\ ~CallSucceeded) => MirrorKept

\* the steps of the plans that run a read twice: non-strict GETs, named so
\* that the history keeps the first run
RepeatSteps ==
    {Named(Step("listPets", FALSE, "none", 0, Nil, [limit |-> IntV(1)], <<>>), "S1"),
     Named(Step("getPet", FALSE, "none", 0, Nil, [a |-> IntV(1)], <<>>), "S1"),
     Named(Step("getPets", FALSE, "int", 200, A12, [a |-> IntV(1)], <<>>), "S1")}

\* a step of the plans that repeat a read
StartRepeatRun == StartRunOf(RepeatSteps)

RepeatNext == StartRepeatRun \/ ResolveParameter \/ HttpError \/ HttpResponse \/ NextStep

SpecRepeat == Init /\ [][RepeatNext]_vars

\* the run the history keeps
FirstRun == history["S1"][1]
\* Run has returned from the second run of a successful non-strict GET step:
\* the step is the one the history keeps, it started on the DB the first run
\* left and the server answered what it answered then
Repeated ==
    /\ history["S1"] # <<>> /\ Processed
    /\ test.op = FirstRun.op /\ test.given = FirstRun.given
    /\ test.expect0 = FirstRun.expect0 /\ test.Strict = FirstRun.Strict
    /\ test.Method = MethodGet /\ ~test.Strict
    /\ SameLists(test.dbStart, FirstRun.db)
    /\ FirstRun.entered /\ FirstRun.err = "" /\ test.err = ""
    /\ test.resp = FirstRun.resp /\ CallSucceeded

\* C32: the second run of a successful non-strict GET step against an
\* unchanged server leaves the DB as the first run left it.
C32_RepeatedReadKeepsDB ==
    Repeated => SameLists(schemas, FirstRun.db)

\* Run has returned without error from a POST step that the server answered
\* with a success; the step went out with one `new` comparison of class c,
\* the object it posted, and the response holds at most one object of c
PostedOne(c) ==
    /\ Validated /\ test.err = "" /\ test.Method = MethodPost /\ CallSucceeded
    /\ Len(test.sent.comps[c]) = 1 /\ test.sent.comps[c][1].hasNew
    /\ Len(ServerObjects(c)) <= 1
\* the entity the step created: the object the server returned, else the
\* object posted
Created(c) ==
    IF Len(ServerObjects(c)) = 1 THEN ServerObjects(c)[1]
    ELSE MapV(test.sent.comps[c][1].new)

\* C33: a successful POST step that creates one entity of a class adds
\* exactly one entity to the DB list of the class, the created one, be the
\* step strict or not.
C33_PostAddsOne ==
    \A c \in DOMAIN Definitions :
        PostedOne(c) =>
            ObjectsOf(schemas, c) = ObjectsOf(test.sent.db, c) \o <<Created(c)>>
\* a non-strict POST whose response holds the created object has returned
C33_Witness ==
    /\ PostedOne("Pet") /\ ~test.Strict
    /\ Len(ServerObjects("Pet")) = 1
    /\ ServerObjects("Pet")[1] # MapV(test.sent.comps["Pet"][1].new)
    /\ Len(ObjectsOf(schemas, "Pet")) = 2

====
